---- MODULE Spec2Model ----
(***************************************************************************)
(* git_calculator: the SQLite lake (commits table, loads, pure-SQL cycle   *)
(* time and change-failure queries) and the in-memory cycle-time path it   *)
(* is validated against.                                                   *)
(*                                                                         *)
(* Units.  committed_date / _when are Unix seconds.  cycle_minutes, sums   *)
(* and averages are two-decimal numbers and are carried as integers in     *)
(* hundredths of a minute (2.33 min = 233); p75 and stdev are integers in  *)
(* minutes.  All arithmetic is exact: the binary representation of the     *)
(* floats is not modelled.                                                 *)
(* A sha is an integer; its numeric order stands for the text order that   *)
(* ORDER BY sha uses.  A message is a sequence of one-character strings.   *)
(***************************************************************************)
EXTENDS Integers, Sequences, FiniteSets, TLC

VARIABLES
  commits,   \* the commits table: its rows in rowid order
  gitlog,    \* what git_log() returns in the working directory
  last,      \* the last call made on the lake, its arguments and its outcome
  cmp        \* the outputs of run_comparison (both paths), once it has run

vars == <<commits, gitlog, last, cmp>>

-----------------------------------------------------------------------------
(* Values *)

DEFAULT_REPO_ID == "local:git_calculator"

OTHER_REPO_ID == "local:other"

UNKNOWN_REPO_ID == "local:unknown"

\* The tags loads are made under, and the tags queries are made with.
RepoIds == {DEFAULT_REPO_ID, OTHER_REPO_ID}

QueryRepoIds == RepoIds \cup {UNKNOWN_REPO_ID}

\* SQL NULL / Python None.  A nullable value is <<>> (NULL) or <<v>>.
NULL == <<>>

Some(v) == <<v>>

Val(x) == x[1]

\* Author e-mails, listed in text (BINARY collation) order.
AuthorOrder == <<"ann@x.io", "bob@x.io">>

Authors == {AuthorOrder[i] : i \in 1..Len(AuthorOrder)}

AuthorRank(a) == CHOOSE i \in 1..Len(AuthorOrder) : AuthorOrder[i] = a

\* 2023-10-01 00:00:00 UTC.
MonthStart == 19631 * 86400

\* A commit of the log is [sha, author, when, body, log_fails]: _author[0], _when,
\* and what `git log -n 1 --format=%B <commit>` prints, unless that call fails.
MsgFix == <<"F", "i", "x", " ", "i", "t">>

MsgAdd == <<"a", "d", "d">>

MsgBlank == <<" ", "\n">>

-----------------------------------------------------------------------------
(* Bounds *)

\* Longest log handed to one load of the store machine.
MaxLoad == 2

\* Longest log the comparison of the two paths runs on.
MaxLog == 5

\* Largest bucket_size tried.
MaxBucketSize == 2

BucketSizes == 1..MaxBucketSize

\* Longest generated history the statistics functions run on.
MaxHist == 5

\* The longest log of the change-failure functions.
MaxMsgLog == 3

\* The longest log loaded in two orders.
MaxOrderLog == 4

-----------------------------------------------------------------------------
(* Sequence helpers *)

RECURSIVE SeqSum(_)
SeqSum(s) == IF s = <<>> THEN 0 ELSE Head(s) + SeqSum(Tail(s))

\* s without the rows whose sha is k.
SeqFilterOut(s, k) == SelectSeq(s, LAMBDA r : r.sha # k)

Range(s) == {s[i] : i \in 1..Len(s)}

-----------------------------------------------------------------------------
(* schema.py / sqlite_lake.py: the commits table and its loads *)

\* str.strip() of a message: leading and trailing white space removed.
IsSpace(ch) == ch \in {" ", "\n", "\t"}

RECURSIVE LStrip(_)
LStrip(m) == IF m # <<>> /\ IsSpace(Head(m)) THEN LStrip(Tail(m)) ELSE m

RECURSIVE RStrip(_)
RStrip(m) ==
  IF m # <<>> /\ IsSpace(m[Len(m)]) THEN RStrip(SubSeq(m, 1, Len(m) - 1)) ELSE m

strip(m) == RStrip(LStrip(m))

\* The message taken from the commit whether or not the git call failed.
MessageOfBody(c) ==
  LET msg == strip(c.body)
  IN  IF msg = <<>> THEN NULL ELSE Some(msg)

\* try: msg = git_run("log", ...).stdout.strip()  except Exception: msg = ""
\* and then `msg or None`.
MessageOf(c) ==
  LET msg == IF c.log_fails THEN <<>> ELSE strip(c.body)
  IN  IF msg = <<>> THEN NULL ELSE Some(msg)

\* The row one commit of the log is written as.
RowOf(c, repo_id) ==
  [sha |-> c.sha, author_email |-> c.author, committed_date |-> c.when,
   raw_data_params |-> repo_id, message |-> MessageOf(c)]

\* DELETE FROM commits WHERE _raw_data_params = ?
DeleteRepo(tbl, repo_id) == SelectSeq(tbl, LAMBDA r : r.raw_data_params # repo_id)

\* INSERT on a table that has no key: the row is added, whatever the table holds.
InsertNoKey(tbl, row) == Append(tbl, row)

\* INSERT OR REPLACE on a table whose PRIMARY KEY is sha: the row holding the
\* sha, whatever its tag, is deleted and the new row gets the next rowid.
InsertOrReplace(tbl, row) == Append(SeqFilterOut(tbl, row.sha), row)

RECURSIVE InsertAll(_, _, _)
InsertAll(tbl, logs, repo_id) ==
  IF logs = <<>> THEN tbl
  ELSE InsertAll(InsertOrReplace(tbl, RowOf(Head(logs), repo_id)), Tail(logs), repo_id)

\* A load that appends and never replaces (no DELETE, no key).
populate_append(tbl, logs, repo_id) ==
  tbl \o [i \in 1..Len(logs) |-> RowOf(logs[i], repo_id)]

\* src/sqlite_lake.py populate_commits_from_log(conn, logs, repo_id): the table after it.
populate_commits_from_log(tbl, logs, repo_id) ==
  InsertAll(DeleteRepo(tbl, repo_id), logs, repo_id)

\* Its return value.
populate_returns(logs) == Len(logs)

\* schema.py populate_commits_from_log(conn, logs): it takes no repo_id and
\* tags every row DEFAULT_REPO_ID.
schema_populate_commits_from_log(tbl, logs) ==
  InsertAll(DeleteRepo(tbl, DEFAULT_REPO_ID), logs, DEFAULT_REPO_ID)

\* The rows of the table, whatever their tag (no WHERE clause).
TaggedRowsAny(tbl, repo_id) == tbl

\* ... FROM commits WHERE _raw_data_params = ?, in rowid order.
TaggedRows(tbl, repo_id) == SelectSeq(tbl, LAMBDA r : r.raw_data_params = repo_id)

\* The rows of a tag, as a set.
RowsOf(tbl, repo_id) == Range(TaggedRows(tbl, repo_id))

-----------------------------------------------------------------------------
(* SQL scalar functions *)

\* CAST(num / den AS INT): the quotient cut towards zero (den > 0).
SqlRoundTrunc(num, den) ==
  IF num >= 0 THEN num \div den ELSE 0 - ((0 - num) \div den)

\* ROUND(num / den): the nearest integer, a half going away from zero (den > 0).
SqlRound(num, den) ==
  IF num >= 0 THEN (2 * num + den) \div (2 * den)
  ELSE 0 - ((2 * (0 - num) + den) \div (2 * den))

\* MAX(0, x)
Max0(x) == IF x < 0 THEN 0 ELSE x

RECURSIVE SqrtUp(_, _, _)
SqrtUp(r, num, den) ==
  IF (2 * r + 1) * (2 * r + 1) * den <= 4 * num THEN SqrtUp(r + 1, num, den) ELSE r

\* ROUND(SQRT(num / den), 0) for num >= 0, den > 0: the largest r with
\* (r - 1/2)^2 <= num / den, and 0 when there is none.
RoundSqrt(num, den) == SqrtUp(0, num, den)

\* The 'unixepoch', 'localtime' modifiers: seconds east of UTC of the machine.
UtcOffset == 0

localtime(ts) == ts + UtcOffset

\* strftime('%Y-%m', ts, 'unixepoch', 'localtime'): <<year, month>> of the
\* civil date of the day the (local) second falls in.
strftime_Ym(ts) ==
  LET z    == (localtime(ts) \div 86400) + 719468
      era  == z \div 146097
      doe  == z - era * 146097
      yoe  == (doe - doe \div 1460 + doe \div 36524 - doe \div 146096) \div 365
      doy  == doe - (365 * yoe + yoe \div 4 - yoe \div 100)
      mp   == (5 * doy + 2) \div 153
      m    == IF mp < 10 THEN mp + 3 ELSE mp - 9
      y    == yoe + era * 400 + (IF m <= 2 THEN 1 ELSE 0)
  IN  <<y, m>>

\* ORDER BY month_year DESC
MonthAfter(a, b) == a[1] > b[1] \/ (a[1] = b[1] /\ a[2] > b[2])

\* Text order of two 'YYYY-MM' labels.
MonthBefore(a, b) == a[1] < b[1] \/ (a[1] = b[1] /\ a[2] < b[2])

\* LOWER(ch) for the ASCII letters.
UpperChars ==
  <<"A", "B", "C", "D", "E", "F", "G", "H", "I", "J", "K", "L", "M",
    "N", "O", "P", "Q", "R", "S", "T", "U", "V", "W", "X", "Y", "Z">>

LowerChars ==
  <<"a", "b", "c", "d", "e", "f", "g", "h", "i", "j", "k", "l", "m",
    "n", "o", "p", "q", "r", "s", "t", "u", "v", "w", "x", "y", "z">>

LowerChar(ch) ==
  IF \E i \in 1..26 : UpperChars[i] = ch
  THEN LowerChars[CHOOSE i \in 1..26 : UpperChars[i] = ch]
  ELSE ch

LOWER(m) == [i \in 1..Len(m) |-> LowerChar(m[i])]

\* m LIKE '%kw%': kw occurs somewhere in m.
Like(m, kw) ==
  \E i \in 1..(Len(m) - Len(kw) + 1) : SubSeq(m, i, i + Len(kw) - 1) = kw

-----------------------------------------------------------------------------
(* cycle_time_by_commits_calculator.py (sqlite_lake): the deltas *)

\* ORDER BY sha alone.
BeforeBySha(q, r) == q.sha < r.sha

\* ORDER BY committed_date, sha
Before(q, r) ==
  \/ q.committed_date < r.committed_date
  \/ (q.committed_date = r.committed_date /\ q.sha < r.sha)

RECURSIVE InsertRow(_, _)
InsertRow(r, s) ==
  IF s = <<>> THEN <<r>>
  ELSE IF Before(r, Head(s)) THEN <<r>> \o s
       ELSE <<Head(s)>> \o InsertRow(r, Tail(s))

\* The rows as the table holds them, in rowid order.
RowidOrder(rows) == rows

RECURSIVE OrderRows(_)
\* Rows (no two with one sha) in ORDER BY committed_date, sha.
OrderRows(rows) ==
  IF rows = <<>> THEN <<>> ELSE InsertRow(Head(rows), OrderRows(Tail(rows)))

\* One window partition: LAG(committed_date) is the row before in the order,
\* NULL for the first; ROUND((committed_date - lag) / 60.0, 2), in hundredths.
LagPartition(rows) ==
  LET o == OrderRows(rows)
  IN  [i \in 1..Len(o) |->
         LET lag == IF i = 1 THEN NULL ELSE Some(o[i - 1].committed_date)
         IN  [committed_date |-> o[i].committed_date,
              sha            |-> o[i].sha,
              cycle_minutes  |-> IF lag = NULL THEN NULL
                                 ELSE Some(SqlRound(100 * (o[i].committed_date - Val(lag)), 60))]]

RECURSIVE DeltasFrom(_, _)
\* The partitions one after the other, from the k-th author on.
DeltasFrom(ordered, k) ==
  IF k > Len(AuthorOrder) THEN <<>>
  ELSE LagPartition(SelectSeq(ordered, LAMBDA r : r.author_email = AuthorOrder[k]))
       \o DeltasFrom(ordered, k + 1)

\* WITH ordered AS (... WHERE _raw_data_params = ?), deltas AS (... LAG ...)
deltas_cte(tbl, repo_id) == DeltasFrom(TaggedRows(tbl, repo_id), 1)

\* ... WHERE cycle_minutes IS NOT NULL
valid(tbl, repo_id) ==
  SelectSeq(deltas_cte(tbl, repo_id), LAMBDA d : d.cycle_minutes # NULL)

\* query_deltas(conn, repo_id): [(committed_date, round(cycle_minutes, 2)), ...]
query_deltas(tbl, repo_id) ==
  LET v == valid(tbl, repo_id)
  IN  [i \in 1..Len(v) |-> <<v[i].committed_date, Val(v[i].cycle_minutes)>>]

-----------------------------------------------------------------------------
(* cycle_time_by_commits_calculator.py (sqlite_lake): bucket statistics *)

RECURSIVE InsertInt(_, _)
InsertInt(x, s) ==
  IF s = <<>> THEN <<x>>
  ELSE IF x <= Head(s) THEN <<x>> \o s
       ELSE <<Head(s)>> \o InsertInt(x, Tail(s))

RECURSIVE SortInts(_)
\* ROW_NUMBER() OVER (... ORDER BY cycle_minutes): the values in ascending order.
SortInts(s) == IF s = <<>> THEN <<>> ELSE InsertInt(Head(s), SortInts(Tail(s)))

Minutes(rows) == [i \in 1..Len(rows) |-> Val(rows[i].cycle_minutes)]

Squares(s) == [i \in 1..Len(s) |-> s[i] * s[i]]

\* The divisor n (population variance).
VarDivisorN(n) == n

\* The divisor of the variance: n - 1.
VarDivisor(n) == n - 1

\* k_lo taken as the rank above (the interpolation shifted by one).
k_lo_shifted(n) == ((n - 1) * 3) \div 4 + 2

\* CAST((COUNT(*) - 1) * 0.75 AS INT) + 1
k_lo(n) == ((n - 1) * 3) \div 4 + 1

\* (COUNT(*) - 1) * 0.75 - CAST((COUNT(*) - 1) * 0.75 AS INT), in quarters.
frac4(n) == ((n - 1) * 3) % 4

\* bucket_meta, ranked, p75_vals and the final SELECT for one group of deltas:
\* (label, s_sum, s_average, s_p75, s_std).
sql_bucket_row(label, rows) ==
  LET x      == Minutes(rows)
      n      == Len(x)
      s      == SeqSum(x)
      s2     == SeqSum(Squares(x))
      ranked == SortInts(x)
      klo    == k_lo(n)
      v_lo   == IF klo <= n THEN Some(ranked[klo]) ELSE NULL
      v_hi   == IF klo + 1 <= n THEN Some(ranked[klo + 1]) ELSE NULL
      hi     == IF v_hi = NULL THEN v_lo ELSE v_hi
  IN  <<label,
        s,
        SqlRound(s, n),
        IF v_lo = NULL THEN NULL
        ELSE Some(SqlRound((4 - frac4(n)) * Val(v_lo) + frac4(n) * Val(hi), 400)),
        RoundSqrt(Max0(n * s2 - s * s), n * VarDivisor(n) * 10000)>>

\* numbered: the valid deltas in ORDER BY committed_date, sha; the row at
\* ROW_NUMBER rn is in bucket (rn - 1) / bucket_size.
numbered(tbl, repo_id) == OrderRows(valid(tbl, repo_id))

\* The row number itself over bucket_size (ROW_NUMBER taken as 0-based).
bucket_id_shifted(rn, bucket_size) == rn \div bucket_size

bucket_id(rn, bucket_size) == (rn - 1) \div bucket_size

\* A HAVING that keeps single-row groups too.
HavingAny(rows) == Len(rows) >= 1

\* HAVING COUNT(*) >= 2
Having(rows) == Len(rows) >= 2

\* MAX(committed_date): the latest date of the bucket.
MaxDate(rows) ==
  CHOOSE t \in {rows[i].committed_date : i \in 1..Len(rows)} :
    \A i \in 1..Len(rows) : t >= rows[i].committed_date

MinDate(rows) ==
  CHOOSE t \in {rows[i].committed_date : i \in 1..Len(rows)} :
    \A i \in 1..Len(rows) : t <= rows[i].committed_date

RECURSIVE FixedFrom(_, _, _)
\* The rows of the buckets b, b + 1, ... in ORDER BY bucket_id.
FixedFrom(nb, bucket_size, b) ==
  LET rns == SelectSeq([i \in 1..Len(nb) |-> i],
                       LAMBDA rn : bucket_id(rn, bucket_size) = b)
      grp == [j \in 1..Len(rns) |-> nb[rns[j]]]
  IN  IF b * bucket_size >= Len(nb) THEN <<>>
      ELSE (IF Having(grp)
            THEN <<sql_bucket_row(strftime_Ym(MinDate(grp)), grp)>>
            ELSE <<>>)
           \o FixedFrom(nb, bucket_size, b + 1)

\* query_fixed_bucket_stats_pure_sql(conn, bucket_size, repo_id), bucket_size >= 1
query_fixed_bucket_stats_pure_sql(tbl, bucket_size, repo_id) ==
  FixedFrom(numbered(tbl, repo_id), bucket_size, 0)

RECURSIVE MonthsFrom(_, _)
\* One row per month_year of `months`, in ORDER BY month_year.
MonthsFrom(v, months) ==
  IF months = {} THEN <<>>
  ELSE LET m   == CHOOSE x \in months : \A y \in months \ {x} : MonthBefore(x, y)
           grp == SelectSeq(v, LAMBDA d : strftime_Ym(d.committed_date) = m)
       IN  (IF Having(grp) THEN <<sql_bucket_row(m, grp)>> ELSE <<>>)
           \o MonthsFrom(v, months \ {m})

\* query_by_month_stats_pure_sql(conn, repo_id)
query_by_month_stats_pure_sql(tbl, repo_id) ==
  LET v == valid(tbl, repo_id)
  IN  MonthsFrom(v, {strftime_Ym(v[i].committed_date) : i \in 1..Len(v)})

-----------------------------------------------------------------------------
(* change_failure_calculator.py (sqlite_lake) *)

\* The patterns without '%bug%'.
KeywordsNoBug ==
  {<<"r", "e", "v", "e", "r", "t">>, <<"h", "o", "t", "f", "i", "x">>,
   <<"b", "u", "g", "f", "i", "x">>, <<"f", "i", "x">>,
   <<"p", "r", "o", "b", "l", "e", "m">>, <<"i", "s", "s", "u", "e">>}

\* revert, hotfix, bugfix, bug, fix, problem, issue
Keywords ==
  {<<"r", "e", "v", "e", "r", "t">>,
   <<"h", "o", "t", "f", "i", "x">>,
   <<"b", "u", "g", "f", "i", "x">>,
   <<"b", "u", "g">>,
   <<"f", "i", "x">>,
   <<"p", "r", "o", "b", "l", "e", "m">>,
   <<"i", "s", "s", "u", "e">>}

\* The patterns matched against the message as stored (no LOWER, a
\* case-sensitive LIKE).
IsFixCaseSensitive(row) ==
  /\ row.message # NULL
  /\ \E kw \in Keywords : Like(Val(row.message), kw)

\* (message IS NOT NULL) AND (LOWER(message) LIKE '%revert%' OR ...)
IsFix(row) ==
  /\ row.message # NULL
  /\ \E kw \in Keywords : Like(LOWER(Val(row.message)), kw)

\* CASE WHEN total_commits = 0 THEN 0 ELSE ROUND(100.0 * fix_commits / total_commits, 1) END,
\* in tenths of a percent.
Rate(fix_commits, total_commits) ==
  IF total_commits = 0 THEN 0 ELSE SqlRound(1000 * fix_commits, total_commits)

RECURSIVE ChangeFailureFrom(_, _)
\* One row per month of `months`, in ORDER BY month.
ChangeFailureFrom(rows, months) ==
  IF months = {} THEN <<>>
  ELSE LET m   == CHOOSE x \in months : \A y \in months \ {x} : MonthBefore(x, y)
           grp == {r \in rows : strftime_Ym(r.committed_date) = m}
       IN  <<<<m, Rate(Cardinality({r \in grp : IsFix(r)}), Cardinality(grp))>>>>
           \o ChangeFailureFrom(rows, months \ {m})

\* query_change_failure_by_month_sql(conn, repo_id): [(month, rate), ...]
query_change_failure_by_month_sql(tbl, repo_id) ==
  LET rows == RowsOf(tbl, repo_id)
  IN  ChangeFailureFrom(rows, {strftime_Ym(r.committed_date) : r \in rows})

-----------------------------------------------------------------------------
(* The in-memory path: calculate_time_deltas, commit_statistics and        *)
(* commit_statistics_normalized_by_month (cycle_time_by_commits_calculator *)
(* of src/calculators, which the tests and the script import).             *)

\* round(x, 2), round(x): the nearest value, for num >= 0 and den > 0.
PyRound(num, den) == (2 * num + den) \div (2 * den)

RECURSIVE FirstAppearance(_, _)
\* The authors of a log in the order they first appear in it.
FirstAppearance(logs, seen) ==
  IF logs = <<>> THEN <<>>
  ELSE IF Head(logs).author \in seen THEN FirstAppearance(Tail(logs), seen)
       ELSE <<Head(logs).author>>
            \o FirstAppearance(Tail(logs), seen \cup {Head(logs).author})

RECURSIVE InsertByWhen(_, _)
InsertByWhen(c, s) ==
  IF s = <<>> THEN <<c>>
  ELSE IF Head(s).when <= c.when THEN <<Head(s)>> \o InsertByWhen(c, Tail(s))
       ELSE <<c>> \o s

RECURSIVE SortByWhen(_)
\* Stable sort by committed_at: ties stay in log order.
SortByWhen(s) ==
  IF s = <<>> THEN <<>>
  ELSE InsertByWhen(s[Len(s)], SortByWhen(SubSeq(s, 1, Len(s) - 1)))

\* Consecutive pairs of one author's sorted commits.
PairDeltas(o) ==
  [i \in 1..(Len(o) - 1) |->
     <<o[i + 1].when, PyRound(100 * (o[i + 1].when - o[i].when), 60)>>]

RECURSIVE DeltasOfAuthors(_, _)
DeltasOfAuthors(logs, authors) ==
  IF authors = <<>> THEN <<>>
  ELSE PairDeltas(SortByWhen(SelectSeq(logs, LAMBDA c : c.author = Head(authors))))
       \o DeltasOfAuthors(logs, Tail(authors))

\* calculate_time_deltas(logs): [[committed_at, cycle_minutes], ...]
calculate_time_deltas(logs) == DeltasOfAuthors(logs, FirstAppearance(logs, {}))

RECURSIVE InsertByTs(_, _)
InsertByTs(d, s) ==
  IF s = <<>> THEN <<d>>
  ELSE IF Head(s)[1] <= d[1] THEN <<Head(s)>> \o InsertByTs(d, Tail(s))
       ELSE <<d>> \o s

RECURSIVE SortByTs(_)
\* Stable sort of deltas by timestamp: ties stay in source order.
SortByTs(s) ==
  IF s = <<>> THEN <<>>
  ELSE InsertByTs(s[Len(s)], SortByTs(SubSeq(s, 1, Len(s) - 1)))

RECURSIVE SumSqDev(_, _, _)
\* The sum of (n * x - s)^2 over the values.
SumSqDev(x, n, s) ==
  IF x = <<>> THEN 0
  ELSE (n * Head(x) - s) * (n * Head(x) - s) + SumSqDev(Tail(x), n, s)

\* The BucketStat of one group of at least 2 deltas.
py_bucket_row(label, grp) ==
  LET x   == SortInts([i \in 1..Len(grp) |-> grp[i][2]])
      n   == Len(x)
      s   == SeqSum(x)
      lo  == ((n - 1) * 3) \div 4
      f   == ((n - 1) * 3) % 4
      hi  == IF lo + 1 <= n - 1 THEN lo + 1 ELSE n - 1
  IN  <<label,
        s,
        PyRound(s, n),
        PyRound(4 * x[lo + 1] + f * (x[hi + 1] - x[lo + 1]), 400),
        RoundSqrt(SumSqDev(x, n, s), n * n * (n - 1) * 10000)>>

RECURSIVE Chunks(_, _)
\* Consecutive chunks of bucket_size deltas; a chunk of fewer than 2 is dropped.
Chunks(sorted, bucket_size) ==
  IF sorted = <<>> THEN <<>>
  ELSE LET k   == IF Len(sorted) < bucket_size THEN Len(sorted) ELSE bucket_size
           grp == SubSeq(sorted, 1, k)
       IN  (IF Len(grp) >= 2
            THEN <<py_bucket_row(strftime_Ym(grp[1][1]), grp)>> ELSE <<>>)
           \o Chunks(SubSeq(sorted, k + 1, Len(sorted)), bucket_size)

\* commit_statistics(time_deltas, bucket_size)
commit_statistics(time_deltas, bucket_size) ==
  Chunks(SortByTs(time_deltas), bucket_size)

RECURSIVE RunLen(_, _)
\* The length of the leading run of deltas of month m.
RunLen(sorted, m) ==
  IF sorted = <<>> \/ strftime_Ym(Head(sorted)[1]) # m THEN 0
  ELSE 1 + RunLen(Tail(sorted), m)

RECURSIVE Runs(_)
\* Runs of consecutive deltas of one year-month; a run of fewer than 2 is dropped.
Runs(sorted) ==
  IF sorted = <<>> THEN <<>>
  ELSE LET m   == strftime_Ym(sorted[1][1])
           k   == RunLen(sorted, m)
           grp == SubSeq(sorted, 1, k)
       IN  (IF Len(grp) >= 2 THEN <<py_bucket_row(m, grp)>> ELSE <<>>)
           \o Runs(SubSeq(sorted, k + 1, Len(sorted)))

\* commit_statistics_normalized_by_month(time_deltas)
commit_statistics_normalized_by_month(time_deltas) == Runs(SortByTs(time_deltas))

-----------------------------------------------------------------------------
(* The inputs *)

Commit(sha, author, when, body, log_fails) ==
  [sha |-> sha, author |-> author, when |-> when, body |-> body,
   log_fails |-> log_fails]

\* The commits of the repository the store machine loads from.
K1 == Commit(1, AuthorOrder[1], MonthStart - 200, MsgFix, FALSE)

K2 == Commit(2, AuthorOrder[1], MonthStart + 10, MsgAdd, FALSE)

K3 == Commit(3, AuthorOrder[1], MonthStart + 130, MsgBlank, FALSE)

K4 == Commit(4, AuthorOrder[2], MonthStart + 10, MsgFix, TRUE)

\* The commits a caller lists in the logs it passes.
StoreCommits == {K1, K2, K3}

\* git_log() of the working directory, newest first.
StoreGitLog == <<K3, K4, K2, K1>>

\* The logs a caller passes to a load: up to MaxLoad commits, in any order,
\* a commit possibly listed twice.
StoreLogs(n) == [1..n -> StoreCommits]

\* The timestamps of the compared logs: two in September 2023, one in October.
ParityTimes == {MonthStart - 200, MonthStart - 60, MonthStart + 130}

\* sha of the i-th commit of a log of n: ascending or descending along the log.
ShaOrders == {"asc", "desc"}

ParityLog(n, f, ord) ==
  [i \in 1..n |->
     Commit(IF ord = "asc" THEN i ELSE n + 1 - i, f[i][1], f[i][2], MsgAdd, FALSE)]

\* The logs the two paths are compared on: every assignment of an author and a
\* timestamp to n commits.
ParityLogs(n) ==
  {ParityLog(n, f, ord) : f \in [1..n -> Authors \X ParityTimes], ord \in ShaOrders}

-----------------------------------------------------------------------------
(* SqliteLake (src/calculators/sqlite_lake/__init__.py) *)

\* `f(conn, rid) if rid else []` with rid = _resolve_repo_id(conn, repo_id) for a
\* repo_id that is not None.
lake_query_deltas(tbl, repo_id) ==
  IF repo_id # "" THEN query_deltas(tbl, repo_id) ELSE <<>>

lake_query_fixed_bucket_stats_pure_sql(tbl, bucket_size, repo_id) ==
  IF repo_id # "" THEN query_fixed_bucket_stats_pure_sql(tbl, bucket_size, repo_id)
  ELSE <<>>

lake_query_by_month_stats_pure_sql(tbl, repo_id) ==
  IF repo_id # "" THEN query_by_month_stats_pure_sql(tbl, repo_id) ELSE <<>>

lake_query_change_failure_by_month_sql(tbl, repo_id) ==
  IF repo_id # "" THEN query_change_failure_by_month_sql(tbl, repo_id) ELSE <<>>

-----------------------------------------------------------------------------
(* The store machine *)

Call(call, repo_id, logs, bucket_size, returned, raised) ==
  [call |-> call, repo_id |-> repo_id, logs |-> logs, bucket_size |-> bucket_size,
   returned |-> returned, raised |-> raised]

NoCmp == [done |-> FALSE]

Init ==
  /\ commits = <<>>
  /\ gitlog = StoreGitLog
  /\ last = Call("create_db", "", <<>>, 0, <<>>, "")
  /\ cmp = NoCmp

\* logs=None means git_log().
LogsArgs == {NULL} \cup UNION {{Some(l) : l \in StoreLogs(n)} : n \in 0..MaxLoad}

EffectiveLogs(arg) == IF arg = NULL THEN gitlog ELSE Val(arg)

\* src/sqlite_lake.py: populate_commits_from_log(conn, logs, repo_id)
Populate ==
  \E arg \in LogsArgs, repo_id \in RepoIds :
    LET logs == EffectiveLogs(arg)
    IN  /\ commits' = populate_commits_from_log(commits, logs, repo_id)
        /\ last' = Call("populate", repo_id, logs, 0, <<populate_returns(logs)>>, "")
        /\ UNCHANGED <<gitlog, cmp>>

\* schema.py: populate_commits_from_log(conn, logs)
SchemaPopulate ==
  \E arg \in LogsArgs :
    LET logs == EffectiveLogs(arg)
    IN  /\ commits' = schema_populate_commits_from_log(commits, logs)
        /\ last' = Call("schema_populate", DEFAULT_REPO_ID, logs, 0,
                        <<populate_returns(logs)>>, "")
        /\ UNCHANGED <<gitlog, cmp>>

\* SqliteLake.load_logs(logs, repo_id) calls
\* schema.populate_commits_from_log(self.conn, repo_id, logs=logs): repo_id lands
\* in the parameter logs, which the keyword then sets again, and the call raises
\* TypeError before a statement runs.
LoadLogs ==
  \E arg \in LogsArgs, repo_id \in RepoIds :
    /\ last' = Call("load_logs", repo_id, EffectiveLogs(arg), 0, <<>>, "TypeError")
    /\ UNCHANGED <<commits, gitlog, cmp>>

QueryDeltas ==
  \E repo_id \in QueryRepoIds :
    /\ last' = Call("query_deltas", repo_id, <<>>, 0,
                    lake_query_deltas(commits, repo_id), "")
    /\ UNCHANGED <<commits, gitlog, cmp>>

QueryFixedBucket ==
  \E repo_id \in QueryRepoIds, bucket_size \in BucketSizes :
    /\ last' = Call("query_fixed_bucket_stats_pure_sql", repo_id, <<>>, bucket_size,
                    lake_query_fixed_bucket_stats_pure_sql(commits, bucket_size, repo_id), "")
    /\ UNCHANGED <<commits, gitlog, cmp>>

QueryByMonth ==
  \E repo_id \in QueryRepoIds :
    /\ last' = Call("query_by_month_stats_pure_sql", repo_id, <<>>, 0,
                    lake_query_by_month_stats_pure_sql(commits, repo_id), "")
    /\ UNCHANGED <<commits, gitlog, cmp>>

QueryChangeFailure ==
  \E repo_id \in QueryRepoIds :
    /\ last' = Call("query_change_failure_by_month_sql", repo_id, <<>>, 0,
                    lake_query_change_failure_by_month_sql(commits, repo_id), "")
    /\ UNCHANGED <<commits, gitlog, cmp>>

Next ==
  \/ Populate
  \/ SchemaPopulate
  \/ LoadLogs
  \/ QueryDeltas
  \/ QueryFixedBucket
  \/ QueryByMonth
  \/ QueryChangeFailure

Spec == Init /\ [][Next]_vars

-----------------------------------------------------------------------------
(* The comparison of the two paths (scripts/compare_cycle_time_python_vs_sql.py) *)

InitParity ==
  /\ commits = <<>>
  /\ \E n \in 0..MaxLog : gitlog \in ParityLogs(n)
  /\ last = Call("create_db", "", <<>>, 0, <<>>, "")
  /\ cmp = NoCmp

\* run_comparison(logs, bucket_size, ...): each *_sql call populates the table
\* from the logs under DEFAULT_REPO_ID and then queries it.
RunComparison ==
  LET py_deltas  == calculate_time_deltas(gitlog)
      t1         == populate_commits_from_log(commits, gitlog, DEFAULT_REPO_ID)
      t2         == populate_commits_from_log(t1, gitlog, DEFAULT_REPO_ID)
      t3         == populate_commits_from_log(t2, gitlog, DEFAULT_REPO_ID)
      sql_deltas == query_deltas(t1, DEFAULT_REPO_ID)
      py_month   == commit_statistics_normalized_by_month(py_deltas)
      sql_month  == query_by_month_stats_pure_sql(t3, DEFAULT_REPO_ID)
  IN  /\ ~cmp.done
      /\ commits' = t3
      /\ \E bucket_size \in BucketSizes :
           /\ cmp' = [done        |-> TRUE,
                      bucket_size |-> bucket_size,
                      py_deltas   |-> py_deltas,
                      sql_deltas  |-> sql_deltas,
                      py_fixed    |-> commit_statistics(py_deltas, bucket_size),
                      sql_fixed   |-> query_fixed_bucket_stats_pure_sql(t2, bucket_size, DEFAULT_REPO_ID),
                      py_month    |-> py_month,
                      sql_month   |-> sql_month]
           /\ last' = Call("run_comparison", DEFAULT_REPO_ID, gitlog, bucket_size, <<>>, "")
      /\ UNCHANGED gitlog

NextParity == RunComparison

SpecParity == InitParity /\ [][NextParity]_vars

-----------------------------------------------------------------------------
(* The statistics functions on single-author histories                      *)
(* (commit_statistics_sql, commit_statistics_normalized_by_month_sql)       *)

\* The timestamps of the generated histories: three in September 2023, ten and
\* thirty minutes apart, and one in October, 700 seconds after the last.
HistTimes ==
  {MonthStart - 3000, MonthStart - 2400, MonthStart - 600, MonthStart + 100}

\* A history of n commits of one author, the i-th of the log with sha i.
HistLog(n, f) ==
  [i \in 1..n |-> Commit(i, AuthorOrder[1], f[i], MsgAdd, FALSE)]

HistLogs(n) == {HistLog(n, f) : f \in [1..n -> HistTimes]}

\* create_custom_commits_single_author([1, 2, 4, 7, 8, 10, 13, 14, 16, 19, 20, 22])
ToyOffsets == <<1, 2, 4, 7, 8, 10, 13, 14, 16, 19, 20, 22>>

\* The seconds of one step of the offsets: a minute where the toy repository
\* has a day, so that the sums of squares stay within machine integers; the
\* order of the commits and so the buckets they fall in are those of the days.
ToyStep == 1 * 60

\* git_log() of the toy repository: 12 commits of one author, newest first.
ToyLog ==
  [i \in 1..Len(ToyOffsets) |->
     Commit(i, AuthorOrder[1],
            MonthStart + ToyOffsets[Len(ToyOffsets) + 1 - i] * ToyStep, MsgAdd, FALSE)]

\* bucket_size = 4 of test_sqlite_fixed_bucket_stats_match_python.
ToyBucketSize == 4

StatBucketSizes == BucketSizes \cup {ToyBucketSize}

\* bucket_size: int = 1000 of cycle_time_between_commits_by_author_sql
DefaultBucketSize == 1000

InitStats ==
  /\ commits = <<>>
  /\ \/ gitlog = ToyLog
     \/ \E n \in 0..MaxHist : gitlog \in HistLogs(n)
  /\ last = Call("create_db", "", <<>>, 0, <<>>, "")
  /\ cmp = NoCmp

\* commit_statistics_sql(conn, bucket_size, repo_id, logs): populate, then the
\* fixed-bucket query.
CommitStatisticsSql ==
  \E bucket_size \in StatBucketSizes :
    LET t == populate_commits_from_log(commits, gitlog, DEFAULT_REPO_ID)
    IN  /\ commits' = t
        /\ last' = Call("commit_statistics_sql", DEFAULT_REPO_ID, gitlog, bucket_size,
                        query_fixed_bucket_stats_pure_sql(t, bucket_size, DEFAULT_REPO_ID), "")
        /\ UNCHANGED <<gitlog, cmp>>

\* commit_statistics_normalized_by_month_sql(conn, repo_id, logs): populate, then
\* the by-month query.
CommitStatisticsNormalizedByMonthSql ==
  LET t == populate_commits_from_log(commits, gitlog, DEFAULT_REPO_ID)
  IN  /\ commits' = t
      /\ last' = Call("commit_statistics_normalized_by_month_sql", DEFAULT_REPO_ID,
                      gitlog, 0, query_by_month_stats_pure_sql(t, DEFAULT_REPO_ID), "")
      /\ UNCHANGED <<gitlog, cmp>>

\* cycle_time_between_commits_by_author_sql(conn, repo_id=..., logs=...) with its
\* default bucket_size: populate, then the fixed-bucket query.
CycleTimeBetweenCommitsByAuthorSql ==
  LET t == populate_commits_from_log(commits, gitlog, DEFAULT_REPO_ID)
  IN  /\ commits' = t
      /\ last' = Call("cycle_time_between_commits_by_author_sql", DEFAULT_REPO_ID,
                      gitlog, DefaultBucketSize,
                      query_fixed_bucket_stats_pure_sql(t, DefaultBucketSize,
                                                        DEFAULT_REPO_ID), "")
      /\ UNCHANGED <<gitlog, cmp>>

NextStats ==
  \/ CommitStatisticsSql
  \/ CommitStatisticsNormalizedByMonthSql
  \/ CycleTimeBetweenCommitsByAuthorSql

SpecStats == InitStats /\ [][NextStats]_vars

-----------------------------------------------------------------------------
(* The change-failure rate of a log, in memory (extract_commit_data and     *)
(* calculate_change_failure_rate of src/calculators/change_failure_         *)
(* calculator, which the test imports) and in SQL                           *)
(* (calculate_change_failure_rate_sql)                                      *)

\* revert, hotfix, bugfix, bug, fix, problem, issue
fix_keywords ==
  {<<"r", "e", "v", "e", "r", "t">>, <<"h", "o", "t", "f", "i", "x">>,
   <<"b", "u", "g", "f", "i", "x">>, <<"b", "u", "g">>, <<"f", "i", "x">>,
   <<"p", "r", "o", "b", "l", "e", "m">>, <<"i", "s", "s", "u", "e">>}

\* The message of a CommitRecord: optional, absent for a commit without one.
py_message(c) == IF c.body = <<>> THEN NULL ELSE Some(c.body)

\* kw in m
py_contains(m, kw) ==
  \E i \in 0..(Len(m) - Len(kw)) : \A j \in 1..Len(kw) : m[i + j] = kw[j]

\* A commit is a fix if its message is non-null and case-insensitively
\* contains a keyword.
is_fix(c) ==
  /\ py_message(c) # NULL
  /\ \E kw \in fix_keywords :
       py_contains([i \in 1..Len(c.body) |-> LowerChar(c.body[i])], kw)

\* The calendar month (local time zone) of a commit.
py_month(c) == strftime_Ym(c.when)

\* extract_commit_data(logs): month -> (total commits, fix commits)
extract_commit_data(logs) ==
  [m \in {py_month(logs[i]) : i \in 1..Len(logs)} |->
     <<Cardinality({i \in 1..Len(logs) : py_month(logs[i]) = m}),
       Cardinality({i \in 1..Len(logs) : py_month(logs[i]) = m /\ is_fix(logs[i])})>>]

\* calculate_change_failure_rate(data_by_month): month -> 100 * fix / total
\* rounded to 1 decimal, in tenths of a percent.
calculate_change_failure_rate(data_by_month) ==
  [m \in DOMAIN data_by_month |->
     PyRound(1000 * data_by_month[m][2], data_by_month[m][1])]

\* The order of two "YYYY-MM" keys compared as text.
MonthIndexLess(a, b) == a[1] * 12 + a[2] < b[1] * 12 + b[2]

RECURSIVE SortedItems(_, _)
\* sorted(py_rates.items())
SortedItems(py_rates, months) ==
  IF months = {} THEN <<>>
  ELSE LET m == CHOOSE x \in months : \A y \in months \ {x} : MonthIndexLess(x, y)
       IN  <<<<m, py_rates[m]>>>> \o SortedItems(py_rates, months \ {m})

\* "fix login", "add feature", "hotfix crash"
MsgFixLogin == <<"f", "i", "x", " ", "l", "o", "g", "i", "n">>

MsgAddFeature == <<"a", "d", "d", " ", "f", "e", "a", "t", "u", "r", "e">>

MsgHotfixCrash == <<"h", "o", "t", "f", "i", "x", " ", "c", "r", "a", "s", "h">>

\* A keyword in capitals inside a word.
MsgDebugged == <<"D", "E", "B", "U", "G", "G", "E", "D">>

\* The message bodies of the logs: one with a keyword, one without, none, one
\* of white space only and one with a keyword in capitals inside a word.
CfBodies == {MsgFixLogin, MsgAddFeature, <<>>, MsgBlank, MsgDebugged}

\* Timestamps in two adjacent months.
CfTimes == {MonthStart - 600, MonthStart + 100}

CfLog(n, f) == [i \in 1..n |-> Commit(i, AuthorOrder[1], f[i][1], f[i][2], FALSE)]

\* The logs of n commits: any timestamps of CfTimes, any bodies of CfBodies.
CfLogs(n) == {CfLog(n, f) : f \in [1..n -> CfTimes \X CfBodies]}

\* Four commits of one month: "fix login", "add feature", "hotfix crash" and one
\* without a message.
ScenarioBodies == <<MsgFixLogin, MsgAddFeature, MsgHotfixCrash, <<>>>>

ScenarioLog ==
  [i \in 1..Len(ScenarioBodies) |->
     Commit(i, AuthorOrder[1], MonthStart + 100 * i, ScenarioBodies[i], FALSE)]

InitChange ==
  /\ commits = <<>>
  /\ (gitlog = ScenarioLog \/ \E n \in 0..MaxMsgLog : gitlog \in CfLogs(n))
  /\ last = Call("create_db", "", <<>>, 0, <<>>, "")
  /\ cmp = NoCmp

\* data_by_month = extract_commit_data(logs)
\* py_rates = calculate_change_failure_rate(data_by_month)
\* py_list = sorted(py_rates.items())
CalculateChangeFailureRate ==
  LET py_rates == calculate_change_failure_rate(extract_commit_data(gitlog))
  IN  /\ ~cmp.done
      /\ cmp' = [done |-> TRUE, py_list |-> SortedItems(py_rates, DOMAIN py_rates)]
      /\ UNCHANGED <<commits, gitlog, last>>

\* calculate_change_failure_rate_sql(conn, repo_id, logs): populate, then query.
CalculateChangeFailureRateSql ==
  LET t == populate_commits_from_log(commits, gitlog, DEFAULT_REPO_ID)
  IN  /\ commits' = t
      /\ last' = Call("calculate_change_failure_rate_sql", DEFAULT_REPO_ID, gitlog, 0,
                      query_change_failure_by_month_sql(t, DEFAULT_REPO_ID), "")
      /\ UNCHANGED <<gitlog, cmp>>

NextChange == CalculateChangeFailureRate \/ CalculateChangeFailureRateSql

SpecChange == InitChange /\ [][NextChange]_vars

-----------------------------------------------------------------------------
(* util/date_util.py: normalize_date, _parse_date, normalize_month_key       *)
(*                                                                           *)
(* A Python value is [kind, s]: kind is its type, s the characters of a str  *)
(* (empty for the other types).  An int read from a text is kept as its      *)
(* decimal digits without leading zeros, so that a year of any size can be   *)
(* carried.                                                                  *)

PyNone == [kind |-> "NoneType", s |-> <<>>]

PyInt5 == [kind |-> "int", s |-> <<>>]

Str(chars) == [kind |-> "str", s |-> chars]

Digits == <<"0", "1", "2", "3", "4", "5", "6", "7", "8", "9">>

IsDigit(ch) == \E i \in 1..10 : Digits[i] = ch

DigitVal(ch) == (CHOOSE i \in 1..10 : Digits[i] = ch) - 1

AllDigits(t) == \A i \in 1..Len(t) : IsDigit(t[i])

RECURSIVE NatOf(_)
\* The number a short run of digits writes.
NatOf(t) == IF t = <<>> THEN 0 ELSE 10 * NatOf(SubSeq(t, 1, Len(t) - 1)) + DigitVal(t[Len(t)])

RECURSIVE DropZeros(_)
DropZeros(t) == IF Len(t) > 1 /\ Head(t) = "0" THEN DropZeros(Tail(t)) ELSE t

RECURSIVE SplitOn(_, _)
\* str.split(ch): the pieces between the occurrences of ch.
SplitOn(t, ch) ==
  IF \A i \in 1..Len(t) : t[i] # ch THEN <<t>>
  ELSE LET k == CHOOSE i \in 1..Len(t) : t[i] = ch /\ \A j \in 1..(i - 1) : t[j] # ch
       IN  <<SubSeq(t, 1, k - 1)>> \o SplitOn(SubSeq(t, k + 1, Len(t)), ch)

\* The pieces of t between runs of white space (the \s+ a blank of a strptime
\* format stands for), for t without white space at its ends.
SplitWs(t) == SelectSeq(SplitOn(t, " "), LAMBDA p : p # <<>>)

RECURSIVE DropUnderscores(_)
\* The digits of a run in which single underscores may stand between digits;
\* <<>> when it is no such run.
DropUnderscores(t) ==
  IF t = <<>> THEN <<>>
  ELSE IF ~IsDigit(Head(t)) THEN <<>>
  ELSE IF Len(t) = 1 THEN t
  ELSE LET rest == IF t[2] = "_" THEN SubSeq(t, 3, Len(t)) ELSE Tail(t)
           more == DropUnderscores(rest)
       IN  IF more = <<>> THEN <<>> ELSE <<Head(t)>> \o more

\* int(text): NULL for ValueError, else the digits of the value.  White space
\* around the text and a leading + are accepted (a - cannot reach it: the text
\* is a piece of a split on "-").
py_int(text) ==
  LET t == strip(text)
      u == IF t # <<>> /\ Head(t) = "+" THEN Tail(t) ELSE t
      d == DropUnderscores(u)
  IN  IF d = <<>> THEN NULL ELSE Some(DropZeros(d))

\* 1 <= month <= 12 for the digits of an int.
MonthInRange(d) == Len(d) <= 2 /\ NatOf(d) >= 1 /\ NatOf(d) <= 12

DayNames == {<<"m", "o", "n">>, <<"t", "u", "e">>, <<"w", "e", "d">>, <<"t", "h", "u">>,
             <<"f", "r", "i">>, <<"s", "a", "t">>, <<"s", "u", "n">>}

MonthNames ==
  <<<<"J", "a", "n">>, <<"F", "e", "b">>, <<"M", "a", "r">>, <<"A", "p", "r">>,
    <<"M", "a", "y">>, <<"J", "u", "n">>, <<"J", "u", "l">>, <<"A", "u", "g">>,
    <<"S", "e", "p">>, <<"O", "c", "t">>, <<"N", "o", "v">>, <<"D", "e", "c">>>>

IsLeap(y) == y % 4 = 0 /\ (y % 100 # 0 \/ y % 400 = 0)

DaysInMonth(y, m) ==
  IF m = 2 THEN (IF IsLeap(y) THEN 29 ELSE 28)
  ELSE IF m \in {4, 6, 9, 11} THEN 30 ELSE 31

\* A field of one or two digits (the \d | \d\d forms of %d, %H, %M, %S) not above hi.
TwoDigitField(t, lo, hi) ==
  /\ Len(t) \in {1, 2}
  /\ AllDigits(t)
  /\ NatOf(t) >= lo
  /\ NatOf(t) <= hi

\* time.strptime(text, '%a %b %d %H:%M:%S %Y'): NULL for ValueError, else
\* <<tm_year, tm_mon, tm_mday>>.  The weekday name is matched and not compared
\* with the date; a two-digit day may start with 0 only as 01..09.
strptime(text) ==
  LET tok == SplitWs(text)
      hms == IF Len(tok) = 5 THEN SplitOn(tok[4], ":") ELSE <<>>
  IN  IF /\ Len(tok) = 5
         /\ LOWER(tok[1]) \in DayNames
         /\ \E m \in 1..12 : LOWER(MonthNames[m]) = LOWER(tok[2])
         /\ TwoDigitField(tok[3], 1, 31)
         /\ Len(hms) = 3
         /\ TwoDigitField(hms[1], 0, 23)
         /\ TwoDigitField(hms[2], 0, 59)
         /\ TwoDigitField(hms[3], 0, 61)
         /\ Len(tok[5]) = 4
         /\ AllDigits(tok[5])
      THEN LET y == NatOf(tok[5])
               m == CHOOSE m \in 1..12 : LOWER(MonthNames[m]) = LOWER(tok[2])
               d == NatOf(tok[3])
           IN  IF y >= 1 /\ d <= DaysInMonth(y, m) THEN Some(<<DropZeros(tok[5]), m, d>>)
               ELSE NULL
      ELSE NULL

\* _parse_date(value): NULL for (None, None, None), else <<<<year, month, day>>>>
\* with day 0 for None.
parse_date(value) ==
  LET parts == SplitOn(value, "-")
      year  == IF Len(parts) = 2 THEN py_int(parts[1]) ELSE NULL
      month == IF Len(parts) = 2 THEN py_int(parts[2]) ELSE NULL
  IN  IF year # NULL /\ month # NULL /\ MonthInRange(Val(month))
      THEN Some(<<Val(year), NatOf(Val(month)), 0>>)
      ELSE strptime(strip(value))

\* f"{n:02d}"
Pad2(n) == <<Digits[(n \div 10) + 1], Digits[(n % 10) + 1]>>

\* INT_MAX of the C int a struct_time field is converted to.
IntMaxDigits == <<"2", "1", "4", "7", "4", "8", "3", "6", "4", "7">>

RECURSIVE DigitsGreater(_, _)
\* a > b for two runs of digits without leading zeros.
DigitsGreater(a, b) ==
  IF Len(a) # Len(b) THEN Len(a) > Len(b)
  ELSE IF a = <<>> THEN FALSE
  ELSE IF Head(a) # Head(b) THEN DigitVal(Head(a)) > DigitVal(Head(b))
  ELSE DigitsGreater(Tail(a), Tail(b))

\* The outcome of a call: the value returned, or the exception raised.
Returned(v) == [returned |-> v, raised |-> ""]

Raised(e) == [returned |-> PyNone, raised |-> e]

\* time.strftime('%a %b %d %H:%M:%S %Y', struct_time((year, month, day, 0, 0, 0,
\* 0, 0, -1))): tm_wday is 0, so %a is Mon whatever the date.
strftime_ctime(year, month, day) ==
  <<"M", "o", "n", " ">> \o MonthNames[month] \o <<" ">> \o Pad2(day)
    \o <<" ", "0", "0", ":", "0", "0", ":", "0", "0", " ">> \o year

\* normalize_date(value, output_format)
normalize_date(value, output_format) ==
  IF value.kind # "str" THEN Returned(value)
  ELSE LET p == parse_date(value.s)
       IN  IF p = NULL THEN Returned(value)
           ELSE LET year  == Val(p)[1]
                    month == Val(p)[2]
                    day   == IF Val(p)[3] = 0 THEN 1 ELSE Val(p)[3]
                IN  IF output_format = "YYYY-MM"
                    THEN Returned(Str(year \o <<"-">> \o Pad2(month)))
                    ELSE IF output_format = "ctime"
                    THEN IF DigitsGreater(year, IntMaxDigits)
                         THEN Raised("OverflowError")
                         ELSE Returned(Str(strftime_ctime(year, month, day)))
                    ELSE Returned(value)

\* normalize_month_key(key)
normalize_month_key(key) == normalize_date(key, "YYYY-MM")

\* The texts of the years and of the months of the two-part strings.
YearTexts ==
  {<<"2", "0", "2", "3">>,
   <<"2", "3">>,
   <<"0", "2", "0", "2", "3">>,
   <<" ", "2", "0", "2", "3">>,
   <<"+", "2", "0", "2", "3">>,
   <<"a", "b", "c">>,
   <<>>,
   <<"2", "1", "4", "7", "4", "8", "3", "6", "4", "7">>,
   <<"2", "1", "4", "7", "4", "8", "3", "6", "4", "8">>,
   <<"9", "9", "9", "9", "9", "9", "9", "9", "9", "9", "9">>,
   <<"2", "_", "0", "2", "3">>}

MonthTexts ==
  {<<"9">>,
   <<"0", "9">>,
   <<"1", "2">>,
   <<"0">>,
   <<"1", "3">>,
   <<"x">>,
   <<>>,
   <<" ", "9">>,
   <<"1", "_", "2">>}

\* The fields of the ctime strings.
CtimeDays == {<<"F", "r", "i">>,
              <<"M", "o", "n">>,
              <<"f", "r", "i">>}

CtimeMonths == {<<"S", "e", "p">>,
   <<"F", "e", "b">>}

CtimeDates == {<<"2", "9">>,
   <<"3", "0">>,
   <<"9">>,
   <<"0", "2", "9">>}

CtimeTimes ==
  {<<"0", "0", ":", "0", "0", ":", "0", "0">>,
   <<"1", "2", ":", "3", "0", ":", "0", "0">>,
   <<"2", "4", ":", "0", "0", ":", "0", "0">>}

CtimeYears == {<<"2", "0", "2", "3">>,
   <<"2", "0", "2", "4">>,
   <<"0", "9", "9", "9">>}

\* " " or "  " between the fields of a ctime string.
CtimeGaps == {<<" ">>, <<" ", " ">>}

\* The values normalize_date is called with: None, an int, 'Y-M' for every year
\* and month text, strings of one and of three parts, and the ctime strings.
DateValues ==
  {PyNone, PyInt5, Str(<<"2", "0", "2", "3">>), Str(<<"2", "0", "2", "3", "-", "0", "9", "-", "0", "1">>)}
    \cup {Str(y \o <<"-">> \o m) : y \in YearTexts, m \in MonthTexts}
    \cup {Str(a \o g \o b \o <<" ">> \o d \o <<" ">> \o t \o <<" ">> \o y) :
            a \in CtimeDays, g \in CtimeGaps, b \in CtimeMonths, d \in CtimeDates,
            t \in CtimeTimes, y \in CtimeYears}

OutputFormats == {"YYYY-MM", "ctime", "other"}

\* A call of date_util awaiting its result, and the call with its outcome.
DateCall(call, value, output_format, outcome) ==
  [call |-> call, value |-> value, output_format |-> output_format,
   returned |-> outcome.returned, raised |-> outcome.raised]

InitDate ==
  /\ commits = <<>>
  /\ gitlog = <<>>
  /\ cmp = NoCmp
  /\ \E value \in DateValues, output_format \in OutputFormats :
       last = DateCall("pending", value, output_format, Returned(PyNone))

NormalizeDate ==
  /\ last.call = "pending"
  /\ last' = DateCall("normalize_date", last.value, last.output_format,
                      normalize_date(last.value, last.output_format))
  /\ UNCHANGED <<commits, gitlog, cmp>>

NormalizeMonthKey ==
  /\ last.call = "pending"
  /\ last.output_format = "YYYY-MM"
  /\ last' = DateCall("normalize_month_key", last.value, "YYYY-MM",
                      normalize_month_key(last.value))
  /\ UNCHANGED <<commits, gitlog, cmp>>

NextDate == NormalizeDate \/ NormalizeMonthKey

SpecDate == InitDate /\ [][NextDate]_vars

-----------------------------------------------------------------------------
(* Two stores loaded with one set of commits in two log orders *)

\* A log of n commits, the i-th with sha i: the authors take turns along the
\* shas, and every second commit of an author has a fix message.
OrderLog(n, f) ==
  [i \in 1..n |->
     Commit(i, AuthorOrder[2 - (i % 2)], f[i],
            IF i % 4 \in {1, 2} THEN MsgFix ELSE MsgAdd, FALSE)]

\* Every assignment of a timestamp to the n commits.
OrderLogs(n) == {OrderLog(n, f) : f \in [1..n -> ParityTimes]}

\* The log in the order p, a permutation of its positions.
Reordered(logs, p) == [i \in 1..Len(logs) |-> logs[p[i]]]

InitOrder ==
  /\ commits = <<>>
  /\ \E n \in 0..MaxOrderLog : gitlog \in OrderLogs(n)
  /\ last = Call("create_db", "", <<>>, 0, <<>>, "")
  /\ cmp = NoCmp

\* populate_commits_from_log on one store with the log and on a second, new
\* store with the log reordered, under the same tag; then the four queries on
\* each store, the fixed buckets of the largest size.
LoadReordered ==
  \E p \in Permutations(1..Len(gitlog)), bucket_size \in {MaxBucketSize} :
    LET other == Reordered(gitlog, p)
        a     == populate_commits_from_log(commits, gitlog, DEFAULT_REPO_ID)
        b     == populate_commits_from_log(<<>>, other, DEFAULT_REPO_ID)
    IN  /\ ~cmp.done
        /\ commits' = a
        /\ cmp' = [done        |-> TRUE,
                   reordered   |-> other,
                   bucket_size |-> bucket_size,
                   deltas_a    |-> query_deltas(a, DEFAULT_REPO_ID),
                   deltas_b    |-> query_deltas(b, DEFAULT_REPO_ID),
                   fixed_a     |-> query_fixed_bucket_stats_pure_sql(a, bucket_size, DEFAULT_REPO_ID),
                   fixed_b     |-> query_fixed_bucket_stats_pure_sql(b, bucket_size, DEFAULT_REPO_ID),
                   month_a     |-> query_by_month_stats_pure_sql(a, DEFAULT_REPO_ID),
                   month_b     |-> query_by_month_stats_pure_sql(b, DEFAULT_REPO_ID),
                   change_a    |-> query_change_failure_by_month_sql(a, DEFAULT_REPO_ID),
                   change_b    |-> query_change_failure_by_month_sql(b, DEFAULT_REPO_ID)]
        /\ last' = Call("load_reordered", DEFAULT_REPO_ID, gitlog, bucket_size, <<>>, "")
        /\ UNCHANGED gitlog

NextOrder == LoadReordered

SpecOrder == InitOrder /\ [][NextOrder]_vars

-----------------------------------------------------------------------------
(* SqliteLake: the query methods with an optional repo_id *)

\* repo_id=None, written as a value that is no tag and not the empty string.
RepoIdNone == "None"

\* The repo_id arguments of the query methods: a tag, '' or None.
LakeRepoIds == QueryRepoIds \cup {"", RepoIdNone}

\* _resolve_repo_id(conn, repo_id): repo_id when it is not None; otherwise it
\* evaluates schema.get_first_repo_id, a name the module schema does not
\* define, which raises AttributeError.
resolve_repo_id(tbl, repo_id) ==
  IF repo_id # RepoIdNone THEN [rid |-> repo_id, raised |-> ""]
  ELSE [rid |-> RepoIdNone, raised |-> "AttributeError"]

\* CAST(minutes AS REAL) / 1440.0, as the fraction it is.
Days(minutes) == [num |-> minutes, den |-> 1440]

\* query_cycle_time_chart_sql(conn, repo_id): the months of the by-month
\* statistics as (month, p75_days, std_days).
query_cycle_time_chart_sql(tbl, repo_id) ==
  LET m == query_by_month_stats_pure_sql(tbl, repo_id)
  IN  [i \in 1..Len(m) |->
         <<m[i][1],
           IF m[i][4] = NULL THEN NULL ELSE Some(Days(Val(m[i][4]))),
           Days(m[i][5])>>]

\* query_change_failure_chart_sql(conn, repo_id)
query_change_failure_chart_sql(tbl, repo_id) ==
  query_change_failure_by_month_sql(tbl, repo_id)

DeltaMethods == {"query_deltas", "calculate_time_deltas_sql"}

\* The methods that take a bucket_size.
BucketMethods ==
  {"query_fixed_bucket_stats_pure_sql", "commit_statistics_sql",
   "cycle_time_between_commits_by_author_sql"}

MonthMethods ==
  {"query_by_month_stats_pure_sql", "commit_statistics_normalized_by_month_sql"}

ChangeFailureMethods ==
  {"query_change_failure_by_month_sql", "calculate_change_failure_rate_sql"}

ChartMethods == {"get_cycle_time_chart_data", "get_change_failure_chart_data"}

LakeMethods ==
  DeltaMethods \cup BucketMethods \cup MonthMethods \cup ChangeFailureMethods
    \cup ChartMethods

\* The bucket_size a method is called with (0 where it takes none).
LakeBucketSizes(method) ==
  IF method = "cycle_time_between_commits_by_author_sql"
  THEN BucketSizes \cup {DefaultBucketSize}
  ELSE IF method \in BucketMethods THEN BucketSizes ELSE {0}

\* What the method's query returns for the resolved tag rid.
LakeRows(method, tbl, bucket_size, rid) ==
  CASE method \in DeltaMethods -> query_deltas(tbl, rid)
    [] method \in BucketMethods ->
         query_fixed_bucket_stats_pure_sql(tbl, bucket_size, rid)
    [] method \in MonthMethods -> query_by_month_stats_pure_sql(tbl, rid)
    [] method \in ChangeFailureMethods -> query_change_failure_by_month_sql(tbl, rid)
    [] method = "get_cycle_time_chart_data" -> query_cycle_time_chart_sql(tbl, rid)
    [] method = "get_change_failure_chart_data" ->
         query_change_failure_chart_sql(tbl, rid)

\* rid = self._repo(repo_id); return <query>(self.conn, ..., rid) if rid else []
LakeOutcome(method, tbl, bucket_size, repo_id) ==
  LET r == resolve_repo_id(tbl, repo_id)
  IN  IF r.raised # "" THEN [returned |-> <<>>, raised |-> r.raised]
      ELSE [returned |-> IF r.rid # "" THEN LakeRows(method, tbl, bucket_size, r.rid)
                         ELSE <<>>,
            raised |-> ""]

\* conn.execute of a statement that deletes the rows of the tag.
execute_delete(tbl, repo_id) == DeleteRepo(tbl, repo_id)

\* conn.execute of the one statement a query runs, WITH ... SELECT: the table
\* after it.
execute_select(tbl, repo_id) == tbl

LakeQuery(method) ==
  \E repo_id \in LakeRepoIds, bucket_size \in LakeBucketSizes(method) :
    LET out == LakeOutcome(method, commits, bucket_size, repo_id)
    IN  /\ last' = Call(method, repo_id, <<>>, bucket_size, out.returned, out.raised)
        /\ commits' = IF out.raised = "" /\ repo_id # ""
                      THEN execute_select(commits, repo_id)
                      ELSE commits
        /\ UNCHANGED <<gitlog, cmp>>

NextLake ==
  \/ Populate
  \/ SchemaPopulate
  \/ \E method \in LakeMethods : LakeQuery(method)

SpecLake == Init /\ [][NextLake]_vars

-----------------------------------------------------------------------------
(* Properties of the comparison (SpecParity) *)

\* No author has two commits with the same timestamp.
NoAuthorDuplicate(logs) ==
  \A i, j \in 1..Len(logs) :
    (i # j /\ logs[i].author = logs[j].author) => logs[i].when # logs[j].when

\* Two commits of different authors share a timestamp.
CrossAuthorTie(logs) ==
  \E i, j \in 1..Len(logs) :
    logs[i].author # logs[j].author /\ logs[i].when = logs[j].when

DeltaLeq(d, e) == d[1] < e[1] \/ (d[1] = e[1] /\ d[2] <= e[2])

RECURSIVE InsertDelta(_, _)
InsertDelta(d, s) ==
  IF s = <<>> THEN <<d>>
  ELSE IF DeltaLeq(d, Head(s)) THEN <<d>> \o s
       ELSE <<Head(s)>> \o InsertDelta(d, Tail(s))

RECURSIVE SortDeltas(_)
\* Deltas sorted by (timestamp, minutes).
SortDeltas(s) == IF s = <<>> THEN <<>> ELSE InsertDelta(Head(s), SortDeltas(Tail(s)))

\* C1: when no author has two commits with the same timestamp, the Delta list of
\* the in-memory path and the Delta list of query_deltas on the store loaded from
\* the same commits are the same list once both are sorted by (timestamp, minutes).
C1_DeltasRefine ==
  (cmp.done /\ NoAuthorDuplicate(gitlog))
    => SortDeltas(cmp.py_deltas) = SortDeltas(cmp.sql_deltas)

\* A compared log of two authors sharing a timestamp, whose two Delta lists come
\* out in different orders and with a delta that is not a whole number of minutes.
C1_Witness ==
  /\ cmp.done
  /\ NoAuthorDuplicate(gitlog)
  /\ CrossAuthorTie(gitlog)
  /\ Len(cmp.sql_deltas) >= 3
  /\ cmp.py_deltas # cmp.sql_deltas
  /\ \E i \in 1..Len(cmp.sql_deltas) : cmp.sql_deltas[i][2] % 100 # 0

\* A BucketStat of the in-memory path and a row of the SQL path hold the same
\* label, sum, average, p75 and standard deviation.
SameStat(p, q) ==
  /\ p[1] = q[1]
  /\ p[2] = q[2]
  /\ p[3] = q[3]
  /\ q[4] # NULL
  /\ p[4] = Val(q[4])
  /\ p[5] = q[5]

\* The two statistics lists are the same row by row.
SameStats(py, sql) ==
  /\ Len(py) = Len(sql)
  /\ \A i \in 1..Len(py) : SameStat(py[i], sql[i])

\* Commit i of the log has an earlier commit of its author.
HasEarlier(logs, i) ==
  \E j \in 1..Len(logs) :
    logs[j].author = logs[i].author /\ logs[j].when < logs[i].when

\* No two commits that each have an earlier commit of their author share a
\* timestamp: no two Deltas carry the same timestamp.
NoDeltaTie(logs) ==
  \A i, j \in 1..Len(logs) :
    (i # j /\ HasEarlier(logs, i) /\ HasEarlier(logs, j))
      => logs[i].when # logs[j].when

MinutesOf(deltas) == [i \in 1..Len(deltas) |-> deltas[i][2]]

\* An author has two commits with the same timestamp.
AuthorDuplicate(logs) ==
  \E i, j \in 1..Len(logs) :
    i < j /\ logs[i].author = logs[j].author /\ logs[i].when = logs[j].when

\* C4: when an author has commits with the same timestamp, the two paths still
\* produce the same number of Deltas and the same multiset of cycle_minutes.
C4_DuplicateTimestamps ==
  (cmp.done /\ AuthorDuplicate(gitlog))
    => /\ Len(cmp.py_deltas) = Len(cmp.sql_deltas)
       /\ SortInts(MinutesOf(cmp.py_deltas)) = SortInts(MinutesOf(cmp.sql_deltas))

\* A compared log where an author's two commits of one timestamp come in the log
\* in the order opposite to their shas, and that author has a later commit too.
C4_Witness ==
  /\ cmp.done
  /\ \E i, j, k \in 1..Len(gitlog) :
       /\ i < j
       /\ gitlog[i].author = gitlog[j].author
       /\ gitlog[i].when = gitlog[j].when
       /\ gitlog[i].sha > gitlog[j].sha
       /\ gitlog[k].author = gitlog[i].author
       /\ gitlog[k].when > gitlog[i].when
  /\ Len(cmp.sql_deltas) >= 3
  /\ \E i \in 1..Len(cmp.sql_deltas) : cmp.sql_deltas[i][2] = 0

\* Row q comes before row r of the same author in (committed_date, sha) order.
Precedes(q, r) ==
  /\ q.author_email = r.author_email
  /\ \/ q.committed_date < r.committed_date
     \/ (q.committed_date = r.committed_date /\ q.sha < r.sha)

\* Row q is the immediate predecessor of row r among the rows.
ImmediatePredecessor(rows, q, r) ==
  /\ Precedes(q, r)
  /\ ~\E m \in rows : Precedes(q, m) /\ Precedes(m, r)

\* v is num / den rounded to the nearest integer (den > 0).
Nearest(v, num, den) ==
  /\ 2 * (den * v - num) <= den
  /\ 2 * (num - den * v) <= den

\* d is the Delta of row r: the date of r, and the seconds since its immediate
\* predecessor over 60, rounded to 2 places.
DeltaOfRow(rows, d, r) ==
  /\ d[1] = r.committed_date
  /\ \E q \in rows :
       /\ ImmediatePredecessor(rows, q, r)
       /\ Nearest(d[2], 100 * (r.committed_date - q.committed_date), 60)

\* C10: query_deltas returns one Delta per commit that has a predecessor of the
\* same author in (committed_date, sha) order: as many Deltas as commits less
\* distinct authors, each the pair (date of the newer commit, seconds between it
\* and its immediate predecessor / 60 rounded to 2 places).
C10_QueryDeltas ==
  cmp.done =>
    LET rows    == RowsOf(commits, DEFAULT_REPO_ID)
        authors == {r.author_email : r \in rows}
        paired  == {r \in rows : \E q \in rows : Precedes(q, r)}
        deltas  == cmp.sql_deltas
    IN  /\ Len(deltas) = Cardinality(rows) - Cardinality(authors)
        /\ \A i \in 1..Len(deltas) :
             Cardinality({j \in 1..Len(deltas) : deltas[j] = deltas[i]})
               = Cardinality({r \in paired : DeltaOfRow(rows, deltas[i], r)})
        /\ \A r \in paired :
             \E i \in 1..Len(deltas) : DeltaOfRow(rows, deltas[i], r)

\* A store of two authors, one with commits of one timestamp, whose shas do not
\* follow the dates, and at least three Deltas returned.
C10_Witness ==
  /\ cmp.done
  /\ Len(cmp.sql_deltas) >= 3
  /\ \E q, r \in RowsOf(commits, DEFAULT_REPO_ID) :
       q.author_email # r.author_email
  /\ \E q, r \in RowsOf(commits, DEFAULT_REPO_ID) :
       /\ q.author_email = r.author_email
       /\ q.committed_date = r.committed_date
       /\ q.sha # r.sha
  /\ \E q, r \in RowsOf(commits, DEFAULT_REPO_ID) :
       /\ q.author_email = r.author_email
       /\ q.committed_date < r.committed_date
       /\ q.sha > r.sha

-----------------------------------------------------------------------------
(* Properties of the store (Spec) *)

Loads == {"populate", "schema_populate", "load_logs"}

Queries ==
  {"query_deltas", "query_fixed_bucket_stats_pure_sql",
   "query_by_month_stats_pure_sql", "query_change_failure_by_month_sql"}

\* C5 (as stated): immediately after a load of commits under repo_id returns
\* (SqliteLake.load_logs or populate_commits_from_log), the rows tagged repo_id
\* are exactly the loaded commits, one row per distinct sha with that commit's
\* author, timestamp and message; the load has not failed.
C5_AsStated ==
  last.call \in Loads =>
    /\ last.raised = ""
    /\ RowsOf(commits, last.repo_id)
         = {RowOf(last.logs[i], last.repo_id) : i \in 1..Len(last.logs)}

\* C6: loading the same commits twice in a row under the same tag leaves the
\* table (its rows and their number) as loading them once: in the state a load
\* has left, the same load again changes nothing.
C6_LoadIdempotent ==
  /\ last.call = "populate"
       => populate_commits_from_log(commits, last.logs, last.repo_id) = commits
  /\ last.call = "schema_populate"
       => schema_populate_commits_from_log(commits, last.logs) = commits

\* A load of two different commits that has left rows under both tags.
C6_Witness ==
  /\ last.call = "populate"
  /\ Len(last.logs) = 2
  /\ last.logs[1] # last.logs[2]
  /\ Cardinality(RowsOf(commits, last.repo_id)) = 2
  /\ \E r \in RepoIds \ {last.repo_id} : RowsOf(commits, r) # {}

\* C7 (as stated): a load under tag r leaves the set of rows of every other tag
\* r' unchanged, also when both repositories hold a commit of the same sha.
C7_AsStated ==
  [][last'.call = "populate" =>
       \A r \in RepoIds \ {last'.repo_id} : RowsOf(commits', r) = RowsOf(commits, r)]_vars

\* No row of the table carries the tag.
NoRowTagged(tbl, repo_id) ==
  \A i \in 1..Len(tbl) : tbl[i].raw_data_params # repo_id

\* C8: in every reachable state of the store, each of query_deltas,
\* query_fixed_bucket_stats_pure_sql, query_by_month_stats_pure_sql and
\* query_change_failure_by_month_sql called with a tag that no row carries (never
\* loaded, or its rows all gone) returns an empty list and raises no error.
C8_UnknownTagEmpty ==
  (last.call \in Queries /\ NoRowTagged(commits, last.repo_id))
    => (last.returned = <<>> /\ last.raised = "")

\* A statistics query for a tag never loaded, on a store whose two other tags
\* hold rows, those of one tag yielding a Delta.
C8_Witness ==
  /\ last.call = "query_fixed_bucket_stats_pure_sql"
  /\ last.bucket_size = 2
  /\ last.repo_id = UNKNOWN_REPO_ID
  /\ \A r \in RepoIds : RowsOf(commits, r) # {}
  /\ \E r \in RepoIds : lake_query_deltas(commits, r) # <<>>
  /\ last.returned = <<>>

\* C9: loading an empty commit sequence under a tag succeeds and stores no row
\* for the tag; afterwards the delta query, both bucket-statistics queries and
\* the change-failure query for the tag return empty lists.
C9_EmptyLoad ==
  (last.call \in {"populate", "schema_populate"} /\ last.logs = <<>>)
    => /\ last.raised = ""
       /\ last.returned = <<0>>
       /\ NoRowTagged(commits, last.repo_id)
       /\ lake_query_deltas(commits, last.repo_id) = <<>>
       /\ \A bucket_size \in BucketSizes :
            lake_query_fixed_bucket_stats_pure_sql(commits, bucket_size, last.repo_id) = <<>>
       /\ lake_query_by_month_stats_pure_sql(commits, last.repo_id) = <<>>
       /\ lake_query_change_failure_by_month_sql(commits, last.repo_id) = <<>>

\* An empty load under one tag on a store that holds rows of the other tag.
C9_Witness ==
  /\ last.call = "populate"
  /\ last.logs = <<>>
  /\ last.repo_id = OTHER_REPO_ID
  /\ Cardinality(RowsOf(commits, DEFAULT_REPO_ID)) >= 2

\* C11: every Delta query_deltas returns has cycle_minutes >= 0, whatever the
\* order of the log against the timestamps and whatever timestamps coincide.
C11_NonNegative ==
  cmp.done => \A i \in 1..Len(cmp.sql_deltas) : cmp.sql_deltas[i][2] >= 0

\* A store loaded from a log that lists a commit before an older one of the same
\* author, whose shas fall as the dates rise, and from which a Delta of zero and
\* a positive Delta come out.
C11_Witness ==
  /\ cmp.done
  /\ \E i, j \in 1..Len(gitlog) :
       /\ i < j
       /\ gitlog[i].author = gitlog[j].author
       /\ gitlog[i].when > gitlog[j].when
       /\ gitlog[i].sha < gitlog[j].sha
  /\ AuthorDuplicate(gitlog)
  /\ \E i, j \in 1..Len(cmp.sql_deltas) :
       cmp.sql_deltas[i][2] = 0 /\ cmp.sql_deltas[j][2] > 0

-----------------------------------------------------------------------------
(* Properties of the statistics functions (SpecStats) *)

\* num / den rounded to the nearest integer, for num >= 0 and den > 0.
NearestInt(num, den) == (2 * num + den) \div (2 * den)

\* The Deltas of the stored rows: one for each row that has a predecessor of its
\* author, with the row's date and sha and the minutes since that predecessor.
ExpectedDeltas(rows) ==
  {[committed_date |-> r.committed_date,
    sha            |-> r.sha,
    cycle_minutes  |->
      LET q == CHOOSE q \in rows : ImmediatePredecessor(rows, q, r)
      IN  NearestInt(100 * (r.committed_date - q.committed_date), 60)] :
   r \in {r \in rows : \E q \in rows : Precedes(q, r)}}

\* The 0-based position of Delta d among the Deltas D in (committed_date, sha) order.
PositionOf(D, d) ==
  Cardinality({e \in D :
    \/ e.committed_date < d.committed_date
    \/ (e.committed_date = d.committed_date /\ e.sha < d.sha)})

\* The Deltas of bucket b: those at positions b * bucket_size .. (b + 1) * bucket_size - 1.
BucketOf(D, bucket_size, b) == {d \in D : PositionOf(D, d) \div bucket_size = b}

\* The Deltas of a month.
MonthOf(D, m) == {d \in D : strftime_Ym(d.committed_date) = m}

RECURSIVE SumMinutes(_)
SumMinutes(S) ==
  IF S = {} THEN 0
  ELSE LET d == CHOOSE e \in S : TRUE IN d.cycle_minutes + SumMinutes(S \ {d})

\* The earliest date of a non-empty set of Deltas.
FirstDate(S) ==
  CHOOSE t \in {d.committed_date : d \in S} : \A d \in S : t <= d.committed_date

\* The Deltas of the store a statistics call has left.
StoredDeltas == ExpectedDeltas(RowsOf(commits, DEFAULT_REPO_ID))

\* C12: query_fixed_bucket_stats_pure_sql puts the Delta at 0-based position i of
\* the (committed_date, sha) order in bucket floor(i / bucket_size) and emits, in
\* bucket order, one row per bucket of at least 2 Deltas and none for a smaller
\* one: for bucket_size >= 2, floor(N / bucket_size) rows and one more exactly
\* when N mod bucket_size >= 2; the 12-commit history with bucket_size 4 yields
\* 3 rows covering 4, 4 and 3 Deltas.
C12_FixedBuckets ==
  last.call = "commit_statistics_sql" =>
    LET D    == StoredDeltas
        N    == Cardinality(D)
        bs   == last.bucket_size
        rows == last.returned
    IN  /\ Len(rows) = Cardinality({b \in 0..N : Cardinality(BucketOf(D, bs, b)) >= 2})
        /\ bs >= 2 => Len(rows) = (N \div bs) + (IF N % bs >= 2 THEN 1 ELSE 0)
        /\ \A k \in 1..Len(rows) :
             LET B == BucketOf(D, bs, k - 1)
             IN  /\ Cardinality(B) >= 2
                 /\ rows[k][1] = strftime_Ym(FirstDate(B))
                 /\ rows[k][2] = SumMinutes(B)
        /\ (last.logs = ToyLog /\ bs = ToyBucketSize) =>
             /\ N = 11
             /\ Len(rows) = 3
             /\ Cardinality(BucketOf(D, bs, 0)) = 4
             /\ Cardinality(BucketOf(D, bs, 1)) = 4
             /\ Cardinality(BucketOf(D, bs, 2)) = 3

\* The 12-commit history with bucket_size 4: three rows, of sums 7, 8 and 6 minutes.
C12_Witness ==
  /\ last.call = "commit_statistics_sql"
  /\ last.logs = ToyLog
  /\ last.bucket_size = ToyBucketSize
  /\ Len(last.returned) = 3
  /\ last.returned[1][2] = 700
  /\ last.returned[2][2] = 800
  /\ last.returned[3][2] = 600

\* The months of a month_year label counted from year 0.
MonthIndex(m) == m[1] * 12 + m[2]

\* C13: query_by_month_stats_pure_sql emits exactly one row per calendar month
\* that holds at least 2 Deltas, none for a month of 0 or 1 Deltas, in strictly
\* ascending month order.
C13_MonthRows ==
  last.call = "commit_statistics_normalized_by_month_sql" =>
    LET D    == StoredDeltas
        M    == {m \in {strftime_Ym(d.committed_date) : d \in D} :
                   Cardinality(MonthOf(D, m)) >= 2}
        rows == last.returned
    IN  /\ Len(rows) = Cardinality(M)
        /\ \A k \in 1..Len(rows) : rows[k][1] \in M
        /\ \A j, k \in 1..Len(rows) :
             j < k => MonthIndex(rows[j][1]) < MonthIndex(rows[k][1])

\* Two months of two Deltas each, the later month's Deltas at one timestamp.
C13_Witness ==
  /\ last.call = "commit_statistics_normalized_by_month_sql"
  /\ Len(last.returned) = 2
  /\ MonthIndex(last.returned[1][1]) + 1 = MonthIndex(last.returned[2][1])
  /\ Cardinality(StoredDeltas) = 4

StatCalls == {"commit_statistics_sql", "commit_statistics_normalized_by_month_sql"}

\* The Deltas behind the k-th row a statistics call has returned: those of the
\* k-th bucket for the fixed buckets, those of the row's month for the months.
RowGroup(k) ==
  IF last.call = "commit_statistics_sql"
  THEN BucketOf(StoredDeltas, last.bucket_size, k - 1)
  ELSE MonthOf(StoredDeltas, last.returned[k][1])

\* C14: every emitted row, of the fixed buckets and of the months, has n >= 2
\* Deltas, a sum that is the sum of cycle_minutes of exactly its bucket's Deltas
\* and an average of that sum over n rounded to 2 decimal places.
C14_SumAverage ==
  last.call \in StatCalls =>
    \A k \in 1..Len(last.returned) :
      LET B == RowGroup(k)
          n == Cardinality(B)
      IN  /\ n >= 2
          /\ last.returned[k][2] = SumMinutes(B)
          /\ Nearest(last.returned[k][3], SumMinutes(B), n)

\* A bucket of four Deltas whose sum is 3 above a multiple of 4: the average is
\* rounded up in its second decimal place.
C14_Witness ==
  /\ last.call = "commit_statistics_sql"
  /\ \E k \in 1..Len(last.returned) :
       /\ Cardinality(RowGroup(k)) = 4
       /\ last.returned[k][2] % 4 = 3
       /\ last.returned[k][3] * 4 = last.returned[k][2] + 1

\* The 0-based rank of Delta d among the Deltas B in ascending cycle_minutes
\* (equal values apart by sha).
RankOf(B, d) ==
  Cardinality({e \in B :
    \/ e.cycle_minutes < d.cycle_minutes
    \/ (e.cycle_minutes = d.cycle_minutes /\ e.sha < d.sha)})

\* x[i]: the cycle_minutes at 0-based rank i of B.
AtRank(B, i) == (CHOOSE d \in B : RankOf(B, d) = i).cycle_minutes

\* 4 * ((1 - frac) * x[lo] + frac * x[min(lo + 1, n - 1)]) for h = (n - 1) * 0.75,
\* lo = floor(h) and frac = h - lo, in hundredths of a minute.
Interpolated4(B) ==
  LET n  == Cardinality(B)
      h4 == (n - 1) * 3
      lo == h4 \div 4
      f4 == h4 % 4
      hi == IF lo + 1 <= n - 1 THEN lo + 1 ELSE n - 1
  IN  (4 - f4) * AtRank(B, lo) + f4 * AtRank(B, hi)

\* C15: the p75 of every emitted row is the linear interpolation at h = (n - 1) *
\* 0.75 between the ascending cycle_minutes of its bucket, rounded to the nearest
\* integer; a bucket of 10 and 30 minutes has p75 25.
C15_P75 ==
  last.call \in StatCalls =>
    \A k \in 1..Len(last.returned) :
      LET B == RowGroup(k)
      IN  /\ last.returned[k][4] # NULL
          /\ Nearest(Val(last.returned[k][4]), Interpolated4(B), 400)
          /\ {d.cycle_minutes : d \in B} = {1000, 3000} /\ Cardinality(B) = 2
               => Val(last.returned[k][4]) = 25

\* A row over the bucket of 10 and 30 minutes, with p75 25.
C15_Witness ==
  /\ last.call \in StatCalls
  /\ \E k \in 1..Len(last.returned) :
       /\ Cardinality(RowGroup(k)) = 2
       /\ {d.cycle_minutes : d \in RowGroup(k)} = {1000, 3000}
       /\ last.returned[k][4] = Some(25)

RECURSIVE SumSquares(_)
SumSquares(S) ==
  IF S = {} THEN 0
  ELSE LET d == CHOOSE e \in S : TRUE
       IN  d.cycle_minutes * d.cycle_minutes + SumSquares(S \ {d})

\* n * (n - 1) times the sample variance of the cycle_minutes of B (the sum of
\* squared deviations from the mean over n - 1), in squared hundredths.
SampleVarianceTimes(B) ==
  Cardinality(B) * SumSquares(B) - SumMinutes(B) * SumMinutes(B)

\* r is sqrt(num / den) / 100 rounded to the nearest integer (den > 0).
NearestRoot(r, num, den) ==
  /\ r >= 0
  /\ r >= 1 => (2 * r - 1) * (2 * r - 1) * den * 2500 <= num
  /\ num <= (2 * r + 1) * (2 * r + 1) * den * 2500

\* C16: the stdev of every emitted row is the sample standard deviation (divisor
\* n - 1) of its bucket's cycle_minutes rounded to the nearest integer; it is
\* never negative, and 0 when all the Deltas of the bucket are equal.
C16_Stdev ==
  last.call \in StatCalls =>
    \A k \in 1..Len(last.returned) :
      LET B == RowGroup(k)
          n == Cardinality(B)
      IN  /\ last.returned[k][5] >= 0
          /\ NearestRoot(last.returned[k][5], SampleVarianceTimes(B), n * (n - 1))
          /\ Cardinality({d.cycle_minutes : d \in B}) = 1 => last.returned[k][5] = 0

\* A row over the bucket of 10 and 30 minutes, with stdev 14 (the divisor n would
\* give 10), and a row over equal Deltas, with stdev 0.
C16_Witness ==
  /\ last.call \in StatCalls
  /\ Len(last.returned) = 2
  /\ \E k \in 1..2 :
       /\ {d.cycle_minutes : d \in RowGroup(k)} = {1000, 3000}
       /\ last.returned[k][5] = 14
  /\ \E k \in 1..2 :
       /\ Cardinality({d.cycle_minutes : d \in RowGroup(k)}) = 1
       /\ last.returned[k][5] = 0

-----------------------------------------------------------------------------
(* Properties of the change-failure rate (SpecChange) *)

SqlRateCall == last.call = "calculate_change_failure_rate_sql"

\* The bodies of the logs that hold a keyword: "fix login" (fix), "hotfix crash"
\* (hotfix, fix) and "DEBUGGED" (bug); "add feature", the blank and the empty
\* body hold none.
FixBodies == {MsgFixLogin, MsgHotfixCrash, MsgDebugged}

\* The commits of the log in month m, and the fixes among them.
LogInMonth(m) == {i \in 1..Len(gitlog) : strftime_Ym(gitlog[i].when) = m}

LogFixesInMonth(m) == {i \in LogInMonth(m) : gitlog[i].body \in FixBodies}

\* C17: for every month of the change-failure output, rate = round(100 *
\* fix_count / total_count, 1) over the repository's commits of that month; four
\* commits of one month with "fix login", "add feature", "hotfix crash" and no
\* message give 50.0.
C17_Rate ==
  SqlRateCall =>
    /\ \A k \in 1..Len(last.returned) :
         LET m == last.returned[k][1]
         IN  /\ Cardinality(LogInMonth(m)) =
                  Cardinality({r \in RowsOf(commits, DEFAULT_REPO_ID) :
                                 strftime_Ym(r.committed_date) = m})
             /\ Cardinality(LogInMonth(m)) > 0
             /\ Nearest(last.returned[k][2],
                        1000 * Cardinality(LogFixesInMonth(m)),
                        Cardinality(LogInMonth(m)))
    /\ gitlog = ScenarioLog => last.returned = <<<<strftime_Ym(MonthStart), 500>>>>

\* The four commits of the scenario: one month, rate 50.0.
C17_Witness ==
  /\ SqlRateCall
  /\ gitlog = ScenarioLog
  /\ Len(last.returned) = 1
  /\ last.returned[1][2] = 500

\* The row the commit at position i of the log is stored as.
StoredRow(i) ==
  CHOOSE r \in RowsOf(commits, DEFAULT_REPO_ID) : r.sha = gitlog[i].sha

\* The rate the output gives for month m.
RateOfMonth(m) ==
  LET k == CHOOSE j \in 1..Len(last.returned) : last.returned[j][1] = m
  IN  last.returned[k][2]

C19_MonthsAndRange ==
  SqlRateCall =>
    LET M    == {strftime_Ym(r.committed_date) : r \in RowsOf(commits, DEFAULT_REPO_ID)}
        rows == last.returned
    IN  /\ Len(rows) = Cardinality(M)
        /\ \A k \in 1..Len(rows) :
             /\ rows[k][1] \in M
             /\ rows[k][2] >= 0
             /\ rows[k][2] <= 1000
        /\ \A j, k \in 1..Len(rows) :
             j < k => MonthIndex(rows[j][1]) < MonthIndex(rows[k][1])

\* Two months, listed newest first in the log, at rates strictly between 0 and 100
\* and at 100.
C19_Witness ==
  /\ SqlRateCall
  /\ Len(gitlog) = 3
  /\ gitlog[1].when > gitlog[3].when
  /\ Len(last.returned) = 2
  /\ MonthIndex(last.returned[1][1]) < MonthIndex(last.returned[2][1])
  /\ {last.returned[1][2], last.returned[2][2]} = {500, 1000}

Abs(x) == IF x < 0 THEN 0 - x ELSE x

\* C20: for the same commit records the in-memory computation and
\* calculate_change_failure_rate_sql give the same (month, rate) list sorted by
\* month: as many months, equal labels position by position, rates less than
\* 0.01 apart.
C20_RateParity ==
  (cmp.done /\ SqlRateCall) =>
    /\ Len(cmp.py_list) = Len(last.returned)
    /\ \A k \in 1..Len(cmp.py_list) :
         /\ cmp.py_list[k][1] = last.returned[k][1]
         /\ 100 * Abs(cmp.py_list[k][2] - last.returned[k][2]) < 10

\* Both lists computed for a log of one month whose rate rounds to 33.3 or to
\* 66.7, a keyword in capitals among the messages.
C20_Witness ==
  /\ cmp.done
  /\ SqlRateCall
  /\ Len(cmp.py_list) = 1
  /\ cmp.py_list[1][2] \in {333, 667}
  /\ last.returned[1][2] = cmp.py_list[1][2]
  /\ \E i \in 1..Len(gitlog) : gitlog[i].body = MsgDebugged

-----------------------------------------------------------------------------
(* Further properties of the store (Spec) *)

\* The commits of the repository, and the commit a sha names.
AllCommits == StoreCommits \cup Range(StoreGitLog)

CommitOfSha(sha) == CHOOSE c \in AllCommits : c.sha = sha

\* The commits of AllCommits whose message, when git delivers it, holds a keyword.
FixMessageShas == {K1.sha, K4.sha}

\* The rows of a tag in month m.
RowsInMonth(tbl, repo_id, m) ==
  {r \in RowsOf(tbl, repo_id) : strftime_Ym(r.committed_date) = m}

\* C21: when retrieving the message of a commit fails during a load, the load
\* does not abort: it returns normally, that commit is stored with a null
\* message, every other commit of the input is stored as well, and the
\* change-failure query counts the commit as a non-fix.
C21_MessageFailure ==
  last.call \in {"populate", "schema_populate"} =>
    LET cf == lake_query_change_failure_by_month_sql(commits, last.repo_id)
    IN  /\ last.raised = ""
        /\ last.returned = <<Len(last.logs)>>
        /\ \A i \in 1..Len(last.logs) :
             \E r \in RowsOf(commits, last.repo_id) :
               /\ r.sha = last.logs[i].sha
               /\ last.logs[i].log_fails => r.message = NULL
        /\ \A k \in 1..Len(cf) :
             LET rows == RowsInMonth(commits, last.repo_id, cf[k][1])
             IN  Nearest(cf[k][2],
                         1000 * Cardinality({r \in rows :
                                  /\ r.sha \in FixMessageShas
                                  /\ ~CommitOfSha(r.sha).log_fails}),
                         Cardinality(rows))

\* git_log() loaded: its four commits are stored, the one whose message could
\* not be read (a message with a keyword) with a null message, and its month,
\* shared with two commits that are no fixes, is at rate 0.
C21_Witness ==
  /\ last.call = "populate"
  /\ last.logs = StoreGitLog
  /\ last.returned = <<4>>
  /\ K4.log_fails
  /\ \E r \in RowsOf(commits, last.repo_id) : r.sha = K4.sha /\ r.message = NULL
  /\ lake_query_change_failure_by_month_sql(commits, last.repo_id)
       = <<<<strftime_Ym(K1.when), 1000>>, <<strftime_Ym(K4.when), 0>>>>

\* C23 (as stated): the value populate_commits_from_log returns is the number of
\* rows tagged with the loaded repo id in the table right after the load, for
\* every input log, a log listing the same sha more than once included.
C23_AsStated ==
  last.call \in {"populate", "schema_populate"} =>
    /\ last.raised = ""
    /\ last.returned = <<Cardinality(RowsOf(commits, last.repo_id))>>

\* C25: in every reachable state of the store the commits table holds at most
\* one row per sha, and every row carries exactly one repository tag, one of the
\* tags loaded under.
C25_OneRowPerSha ==
  /\ \A i, j \in 1..Len(commits) : commits[i].sha = commits[j].sha => i = j
  /\ \A i \in 1..Len(commits) : commits[i].raw_data_params \in RepoIds

\* A load of a log listing one sha twice, into a table holding rows of the other
\* tag: the sha is stored once.
C25_Witness ==
  /\ last.call = "populate"
  /\ Len(last.logs) = 2
  /\ last.logs[1].sha = last.logs[2].sha
  /\ Cardinality(RowsOf(commits, last.repo_id)) = 1
  /\ \E r \in RepoIds \ {last.repo_id} : Cardinality(RowsOf(commits, r)) = 2

-----------------------------------------------------------------------------
(* Properties of the reordered loads (SpecOrder) *)

\* Two sequences hold the same elements the same number of times.
SameMultiset(s, t) ==
  /\ Len(s) = Len(t)
  /\ \A x \in Range(s) :
       Cardinality({i \in 1..Len(s) : s[i] = x})
         = Cardinality({i \in 1..Len(t) : t[i] = x})

-----------------------------------------------------------------------------
(* Further properties of the statistics (SpecStats) *)

\* The calls that return fixed-bucket rows.
FixedBucketCalls ==
  {"commit_statistics_sql", "cycle_time_between_commits_by_author_sql"}

\* The first Delta of a non-empty set B of the Deltas D in (committed_date, sha)
\* order.
FirstDelta(D, B) ==
  CHOOSE d \in B : \A e \in B : PositionOf(D, d) <= PositionOf(D, e)

\* C26: each fixed-bucket row is labelled with the year-month of its bucket's
\* first Delta in (committed_date, sha) order, whose committed_date is the
\* smallest of the bucket; the rows come in bucket order, so the labels never
\* decrease.
C26_BucketLabels ==
  last.call \in FixedBucketCalls =>
    LET D    == StoredDeltas
        rows == last.returned
    IN  /\ \A k \in 1..Len(rows) :
             LET B == BucketOf(D, last.bucket_size, k - 1)
             IN  /\ B # {}
                 /\ rows[k][1] = strftime_Ym(FirstDelta(D, B).committed_date)
                 /\ \A d \in B : FirstDelta(D, B).committed_date <= d.committed_date
        /\ \A j, k \in 1..Len(rows) :
             j < k => MonthIndex(rows[j][1]) <= MonthIndex(rows[k][1])

\* Two buckets of two Deltas, the second with a Delta of September and one of
\* October: both rows are labelled September.
C26_Witness ==
  /\ last.call = "commit_statistics_sql"
  /\ last.bucket_size = 2
  /\ Len(last.returned) = 2
  /\ last.returned[1][1] = strftime_Ym(MonthStart - 1)
  /\ last.returned[2][1] = strftime_Ym(MonthStart - 1)
  /\ \E d \in BucketOf(StoredDeltas, 2, 1) :
       strftime_Ym(d.committed_date) = strftime_Ym(MonthStart)

\* C30: with bucket_size = 1 the fixed-size aggregation returns an empty list
\* for every input; with bucket_size >= N >= 2, N the number of Deltas (as with
\* the default 1000 of cycle_time_between_commits_by_author_sql), it returns
\* exactly one row, covering all N Deltas.
C30_OneAndAll ==
  last.call \in FixedBucketCalls =>
    LET D == StoredDeltas
        N == Cardinality(D)
    IN  /\ last.bucket_size = 1 => last.returned = <<>>
        /\ (last.bucket_size >= N /\ N >= 2)
             => /\ Len(last.returned) = 1
                /\ last.returned[1][1] = strftime_Ym(FirstDate(D))
                /\ last.returned[1][2] = SumMinutes(D)

\* The 12-commit history under the default bucket_size: one row, labelled with
\* the month of the history, whose sum is the 21 minutes of all 11 Deltas.
C30_Witness ==
  /\ last.call = "cycle_time_between_commits_by_author_sql"
  /\ last.bucket_size = DefaultBucketSize
  /\ last.logs = ToyLog
  /\ Cardinality(StoredDeltas) = 11
  /\ last.returned # <<>>
  /\ last.returned[1][2] = 2100

-----------------------------------------------------------------------------
(* Properties of SqliteLake (SpecLake) *)

\* The tags that rows of the table carry.
TagsPresent(tbl) == {tbl[i].raw_data_params : i \in 1..Len(tbl)}

\* C27 (as stated): a SqliteLake query method called with repo_id=None returns
\* the result of a repository tag present in the table, and an empty list
\* without error on a lake with no rows; called with an explicit repo_id it
\* returns the result over the rows of that tag only.
C27_AsStated ==
  last.call \in LakeMethods =>
    /\ last.raised = ""
    /\ (last.repo_id = RepoIdNone /\ commits = <<>>) => last.returned = <<>>
    /\ (last.repo_id = RepoIdNone /\ commits # <<>>)
         => \E rid \in TagsPresent(commits) :
              last.returned = LakeRows(last.call, commits, last.bucket_size, rid)
    /\ last.repo_id \in QueryRepoIds
         => last.returned
              = LakeRows(last.call, <<>> \o TaggedRows(commits, last.repo_id),
                         last.bucket_size, last.repo_id)

-----------------------------------------------------------------------------
(* Properties of the date utilities (SpecDate) *)

DateCalls == {"normalize_date", "normalize_month_key"}

CtimeText(a, g, b, d, t, y) ==
  Str(a \o g \o b \o <<" ">> \o d \o <<" ">> \o t \o <<" ">> \o y)

\* The values of DateValues that are dates: 'Y-M' of a year text that writes a
\* number and a month text that writes a number of 1..12, and the ctime strings
\* whose day writes 1..31 in one or two digits, whose hour is below 24 and whose
\* day exists in the month (February has 29 days in 2024 only).
DateTexts ==
  {Str(y \o <<"-">> \o m) :
     y \in YearTexts \ {<<>>, <<"a", "b", "c">>},
     m \in {<<"9">>, <<"0", "9">>, <<"1", "2">>, <<" ", "9">>, <<"1", "_", "2">>}}
    \cup ({CtimeText(a, g, b, d, t, y) :
            a \in CtimeDays, g \in CtimeGaps,
            b \in CtimeMonths,
            d \in CtimeDates \ {<<"0", "2", "9">>},
            t \in CtimeTimes \ {<<"2", "4", ":", "0", "0", ":", "0", "0">>},
            y \in CtimeYears} \
         ({CtimeText(a, g, <<"F", "e", "b">>, <<"3", "0">>, t, y) :
            a \in CtimeDays, g \in CtimeGaps, t \in CtimeTimes, y \in CtimeYears}
          \cup
          {CtimeText(a, g, <<"F", "e", "b">>, <<"2", "9">>, t, y) :
            a \in CtimeDays, g \in CtimeGaps, t \in CtimeTimes,
            y \in CtimeYears \ {<<"2", "0", "2", "4">>}}))

\* C22 (as stated): normalize_date and normalize_month_key never raise, and
\* return their input unchanged whenever it is not a string or is a string that
\* is neither 'YYYY-M'/'YYYY-MM' with a month of 1..12 nor a ctime string (a
\* month of 0 or above 12 and non-numeric parts included).
C22_AsStated ==
  last.call \in DateCalls =>
    /\ last.raised = ""
    /\ last.value \notin DateTexts => last.returned = last.value

\* 'Fri Sep 29 00:00:00 2023' and 'Mon Sep 30 00:00:00 2024': ctime strings of a
\* Friday and of a Monday.
FridayText ==
  Str(<<"F", "r", "i", " ", "S", "e", "p", " ", "2", "9", " ", "0", "0", ":", "0", "0", ":", "0", "0", " ", "2", "0", "2", "3">>)

MondayText ==
  Str(<<"M", "o", "n", " ", "S", "e", "p", " ", "3", "0", " ", "0", "0", ":", "0", "0", ":", "0", "0", " ", "2", "0", "2", "4">>)

ValidCtimeTexts == {FridayText, MondayText}

\* C28 (as stated): normalize_date(value, 'ctime') of a valid ctime string with
\* time 00:00:00 returns the same string, weekday included; normalize_date(value,
\* 'YYYY-MM') is idempotent and turns 'YYYY-M' into the zero-padded 'YYYY-MM'.
C28_AsStated ==
  last.call = "normalize_date" =>
    /\ (last.output_format = "ctime" /\ last.value \in ValidCtimeTexts)
         => (last.raised = "" /\ last.returned = last.value)
    /\ last.output_format = "YYYY-MM"
         => /\ last.raised = ""
            /\ normalize_date(last.returned, "YYYY-MM") = Returned(last.returned)
            /\ last.value = Str(<<"2", "0", "2", "3", "-", "9">>)
                 => last.returned = Str(<<"2", "0", "2", "3", "-", "0", "9">>)

====
